---- MODULE Spec2Model ----
(***************************************************************************)
(* crown-interiors: the Express API of the invoicing application and the   *)
(* logic of its browser client.                                            *)
(*                                                                         *)
(*   SpecAuth  one request going through the router of /api/invoices:      *)
(*             the authenticate middleware (with its retry loop), then     *)
(*             the route's validate middleware and controller.             *)
(***************************************************************************)
EXTENDS Integers, Sequences, FiniteSets, Bags, TLC

VARIABLES
    \* ---- one HTTP request under /api/invoices (SpecAuth) ----
    authorization,  \* req.headers.authorization: "absent", "Basic" or "Bearer"
    token,          \* the token carried after "Bearer "
    route,          \* the route the request is for
    pc,             \* where the request is in the middleware chain
    attempt,        \* loop variable of the retry loop
    lastError,      \* authenticate's lastError
    user,           \* authenticate's user
    results,        \* history: what each getUser call of this request gave
    resStatus,      \* HTTP status sent (0: no response sent yet)
    resCount,       \* number of responses sent
    nextCalled,     \* number of times authenticate called next()
    reqUserId,      \* req.userId
    ran,            \* the middlewares / controllers after authenticate that ran
    \* ---- the invoice service behind the controllers (SpecDb) ----
    invoices,       \* the rows of the invoices table
    nextId,         \* the next id the database assigns (ids are never reused)
    clock,          \* the time of the last write: created_at / updated_at
    today,          \* new Date().toISOString().split('T')[0]
    storage,        \* the storage bucket: filename -> the PDF stored there
    reqs,           \* the requests between two awaits (a bag of records)
    concurrency,    \* how many requests the clients keep in flight at once
    resp,           \* the last response sent
    issued,         \* history: per user, the largest number ever assigned
    sent,           \* history: id -> body of the POST that created the row,
                    \*          for the rows not written since
    \* ---- the browser client ----
    form,           \* the watched fields of the invoice form (react-hook-form)
    calculations,   \* useInvoiceCalculations: { subtotal, taxAmount, total }
    storeInvoices,  \* useInvoiceStore: invoices
    storeFilters,   \* useInvoiceStore: filters
    filtered,       \* what getFilteredInvoices() gives the history view
    session,        \* useAuthStore: session ("fresh", "stale" or "none")
    refreshPromise, \* _refreshPromise: the refresh it stands for, or NoPromise
    inFlight,       \* the supabase.auth.refreshSession() calls not yet settled
    refreshes,      \* history: how many refreshSession() calls were made
    callPc,         \* per API call: where it is
    authRetried,    \* per API call: config.__authRetried
    retryCount,     \* per API call: config.__retryCount
    awaits,         \* per API call: the refresh it awaits, or NoPromise
    delivered,      \* per API call: the result of the refresh it awaited
    lastStatus,     \* per API call: the status of the last response (0: none)
    sends,          \* history: per API call, the requests put on the network
    resent429,      \* history: per API call, the re-sends after a 429
    resent401,      \* history: per API call, the re-sends after a 401
    isAuthenticated,\* useAuthStore: isAuthenticated
    signingOut,     \* logout() is awaiting supabase.auth.signOut()
    loggedOut,      \* history: a logout() has completed and nobody has logged in since
    authSession,    \* supabase.auth holds a session
    liveRefreshes,  \* the refreshes in flight that were started with a session, before logout()
    page,           \* the form page that is open: "create", "edit" or "closed"
    docType,        \* docType of the page last opened ("closed": none yet)
    opened,         \* InvoiceEdit: the invoice the page fetched (NoBody: none)
    payload,        \* the payload the page has just sent (NoBody: none)
    draft,          \* useInvoiceStore: draft (NoBody: null)
    localDraft,     \* localStorage: the text under 'invoice-draft' (NoBody: no item)
    loaded,         \* what loadDraft() returned, until the store is next used (NoBody: null)
    lastDraftOp     \* history: the last thing done to the draft

authVars == <<authorization, token, route, pc, attempt, lastError, user, results,
              resStatus, resCount, nextCalled, reqUserId, ran>>

dbVars == <<invoices, nextId, clock, today, storage, reqs, concurrency, resp, issued, sent>>

calcVars == <<form, calculations>>

storeVars == <<storeInvoices, storeFilters, filtered>>

apiVars == <<session, refreshPromise, inFlight, refreshes, callPc, authRetried, retryCount,
             awaits, delivered, lastStatus, sends, resent429, resent401>>

formVars == <<page, docType, opened, payload, draft, localDraft, loaded, lastDraftOp>>

logoutVars == <<isAuthenticated, signingOut, loggedOut, authSession, liveRefreshes>>

clientVars == <<calcVars, storeVars, apiVars, formVars, logoutVars>>

vars == <<authVars, dbVars, clientVars>>

\* ---- values of the kinds the variables hold ----
NoBody == [k \in {} |-> 0]
NoUrl  == [number |-> [prefix |-> "", digits |-> <<>>], type |-> ""]
NoResp == [op |-> "none", user |-> "nobody", id |-> 0, status |-> 0, data |-> {},
           request |-> NoBody, before |-> {}, source |-> {}, url |-> NoUrl,
           error |-> "", details |-> {}]

Null    == "<null>"
NullNum == 0 - 1

Users == {"userA", "userB"}

(***************************************************************************)
(* The auth provider (Supabase Auth), as seen through getUser(token).      *)
(***************************************************************************)
NoError == [message |-> <<>>, outage |-> FALSE, none |-> TRUE]
NoUser  == "no-user"
NoUserId == "no-user-id"

\* Tokens and the user the provider resolves each of them to.
Tokens == {"tokA", "tokB", "expired"}
TokenUser(t) == IF t = "tokA" THEN "userA" ELSE IF t = "tokB" THEN "userB" ELSE NoUser

\* An error object: its message (a sequence of words; <<>> is "no message")
\* and, as history, whether it reports that the provider is unreachable.
Err(msg, isOutage) == [message |-> msg, outage |-> isOutage, none |-> FALSE]

\* The messages with which a provider outage reaches the middleware.
OutageMessages ==
    { <<"fetch", "failed">>,
      <<"connect", "ECONNREFUSED", "127.0.0.1:54321">>,
      <<"Network", "request", "failed">>,
      <<"read", "ECONNRESET">>,
      <<>> }

\* What one call of supabaseAdmin.auth.getUser(token) can give: the resolved
\* value {data, error}, or a rejection (thrown |-> TRUE).
ProviderResults(t) ==
    { [thrown |-> FALSE, error |-> NoError, user |-> TokenUser(t)] }
    \cup (IF TokenUser(t) = NoUser
          THEN { [thrown |-> FALSE, error |-> Err(<<"invalid", "JWT">>, FALSE), user |-> NoUser] }
          ELSE {})
    \cup { [thrown |-> FALSE, error |-> Err(m, TRUE), user |-> NoUser] : m \in OutageMessages }
    \cup { [thrown |-> TRUE, error |-> Err(<<"fetch", "failed">>, TRUE), user |-> NoUser] }

(***************************************************************************)
(* middleware/auth.js                                                      *)
(***************************************************************************)
AUTH_GET_USER_RETRIES == 2

\* String.prototype.toLowerCase on one word of a message.
ToLowerCase(w) ==
    CASE w = "ECONNREFUSED" -> "econnrefused"
      [] w = "ECONNRESET"   -> "econnreset"
      [] w = "ETIMEDOUT"    -> "etimedout"
      [] w = "ENOTFOUND"    -> "enotfound"
      [] w = "Network"      -> "network"
      [] w = "JWT"          -> "jwt"
      [] OTHER              -> w

LowerMsg(m) == [i \in DOMAIN m |-> ToLowerCase(m[i])]

\* msg.includes(word)
Includes(m, w) == \E i \in DOMAIN m : m[i] = w

isTransientAuthErrorAny(error) == ~error.none

isTransientAuthError(error) ==
    IF error.none \/ error.message = <<>>
    THEN FALSE
    ELSE LET msg == LowerMsg(error.message)
         IN  \/ msg = <<"fetch", "failed">>
             \/ Includes(msg, "econnrefused")
             \/ Includes(msg, "etimedout")
             \/ Includes(msg, "enotfound")
             \/ Includes(msg, "network")

\* res.status(status).json(...): one response, and the request is over.
Respond(status) ==
    /\ resStatus' = status
    /\ resCount' = resCount + 1
    /\ pc' = "done"

(***************************************************************************)
(* routes/invoiceRoutes.js: router.use(authenticate), then per route an    *)
(* optional validate(schema) and the controller.                           *)
(***************************************************************************)
Routes ==
    { [path |-> "GET /stats",             schema |-> "none",                controller |-> "getInvoiceStats"],
      [path |-> "GET /",                  schema |-> "none",                controller |-> "getAllInvoices"],
      [path |-> "POST /",                 schema |-> "createInvoiceSchema", controller |-> "createInvoice"],
      [path |-> "GET /:id",               schema |-> "none",                controller |-> "getInvoiceById"],
      [path |-> "PUT /:id",               schema |-> "updateInvoiceSchema", controller |-> "updateInvoice"],
      [path |-> "DELETE /:id",            schema |-> "none",                controller |-> "deleteInvoice"],
      [path |-> "POST /:id/duplicate",    schema |-> "none",                controller |-> "duplicateInvoice"],
      [path |-> "PUT /:id/status",        schema |-> "updateStatusSchema",  controller |-> "updateInvoiceStatus"],
      [path |-> "GET /:id/pdf",           schema |-> "none",                controller |-> "generatePdf"],
      [path |-> "POST /:id/pdf/upload",   schema |-> "none",                controller |-> "generateAndUploadPdf"] }

\* The handler Express runs after authenticate has called next().
AfterAuthenticate(r) == IF r.schema = "none" THEN "controller" ELSE "validate"

\* router.use(authenticate), line 31, before every route: each request of
\* the router enters authenticate first.
RouterEntryNoAuthenticate(r) == AfterAuthenticate(r)

RouterEntry(r) == "authenticate"

(***************************************************************************)
(* The invoices table and the request bodies.                              *)
(*                                                                         *)
(* A row is a record over Columns.  A column that an insert does not set   *)
(* holds SQL NULL (Null for text, date and url columns, NullNum for        *)
(* numeric ones).  Request bodies are records whose DOMAIN is the set of   *)
(* keys the client sent.                                                   *)
(***************************************************************************)

\* validations/invoiceSchema.js: the keys of createInvoiceSchema.
SchemaKeys ==
    { "document_type", "customer_name", "customer_phone", "customer_address",
      "customer_email", "services", "subtotal", "tax_enabled", "tax_percentage",
      "tax_amount", "discount_amount", "total_amount", "invoice_date", "due_date",
      "notes" }

Columns ==
    SchemaKeys \cup { "id", "user_id", "invoice_number", "status", "pdf_url",
                      "created_at", "updated_at" }

\* The values the model's request bodies draw from that match
\* /^[+]?[0-9]{10,13}$/, Joi's email rule and Joi.date().iso().
PhonePatternMatches == {"9876543210", "+919876543210"}
EmailRuleMatches    == {"rajan@example.com"}
IsoDates            == {"2026-02-12", "2026-03-12"}

\* serviceSchema
serviceSchemaOk(s) ==
    /\ DOMAIN s = {"description", "quantity", "rate", "amount"}
    /\ Len(s.description) >= 2 /\ Len(s.description) <= 200
    /\ s.quantity >= 1 /\ s.quantity <= 9999
    /\ s.rate >= 0 /\ s.rate <= 99999999
    /\ s.amount >= 0

\* The rule of one key of createInvoiceSchema, for a value that is present.
KeyRuleOkAny(k, v) == TRUE

KeyRuleOk(k, v) ==
    CASE k = "document_type"    -> v \in {"invoice", "estimate"}
      [] k = "customer_name"    -> v # Null /\ Len(v) >= 2 /\ Len(v) <= 100
      [] k = "customer_phone"   -> v \in PhonePatternMatches
      [] k = "customer_address" -> v = Null \/ Len(v) <= 300
      [] k = "customer_email"   -> v \in {"", Null} \/ v \in EmailRuleMatches
      [] k = "services"         -> Len(v) >= 1 /\ \A i \in DOMAIN v : serviceSchemaOk(v[i])
      [] k = "subtotal"         -> v >= 0
      [] k = "tax_enabled"      -> v \in BOOLEAN
      [] k = "tax_percentage"   -> v >= 0 /\ v <= 100
      [] k = "tax_amount"       -> v >= 0
      [] k = "discount_amount"  -> v >= 0
      [] k = "total_amount"     -> v >= 0
      [] k = "invoice_date"     -> v \in IsoDates
      [] k = "due_date"         -> v = Null \/ v \in IsoDates
      [] k = "notes"            -> v = Null \/ Len(v) <= 1000

\* The keys createInvoiceSchema marks required().
CreateRequired ==
    { "document_type", "customer_name", "customer_phone", "services", "subtotal",
      "tax_enabled", "tax_amount", "total_amount", "invoice_date" }

\* updateInvoiceSchema: the fork makes these keys optional; every rule that
\* is not forked (the default of discount_amount, the when() of
\* tax_percentage) stays as in createInvoiceSchema.
UpdateForked ==
    { "document_type", "customer_name", "customer_phone", "services", "subtotal",
      "tax_enabled", "tax_amount", "total_amount", "invoice_date" }

Required(schema) ==
    IF schema = "createInvoiceSchema" THEN CreateRequired
    ELSE IF schema = "updateInvoiceSchema" THEN CreateRequired \ UpdateForked
    ELSE {"status"}

KeysOf(schema) ==
    IF schema = "updateStatusSchema" THEN {"status"} ELSE SchemaKeys

\* .when('tax_enabled', { is: true, then: Joi.required() })
WhenRequired(schema, body) ==
    IF /\ schema # "updateStatusSchema"
       /\ "tax_enabled" \in DOMAIN body
       /\ body["tax_enabled"] = TRUE
    THEN {"tax_percentage"}
    ELSE {}

\* Joi's default(): the keys a schema fills in when the body lacks them.
Defaults(schema) ==
    IF schema = "updateStatusSchema"
    THEN [k \in {} |-> 0]
    ELSE [k \in {"discount_amount"} |-> 0]

RuleOk(schema, k, v) ==
    IF schema = "updateStatusSchema"
    THEN v \in {"draft", "sent", "paid"}
    ELSE KeyRuleOk(k, v)

\* The rule of one key of serviceSchema.
ServiceFieldOk(f, v) ==
    CASE f = "description" -> Len(v) >= 2 /\ Len(v) <= 200
      [] f = "quantity"    -> v >= 1 /\ v <= 9999
      [] f = "rate"        -> v >= 0 /\ v <= 99999999
      [] f = "amount"      -> v >= 0

\* The array index i of a details path, as Joi writes it (zero-based).
IndexText(i) == <<"0", "1", "2", "3">>[i]

\* abortEarly: false inside services: one entry per key of a line that
\* breaks its rule, with path ['services', index, key].
LineDetails(k, v) ==
    IF k # "services" THEN {}
    ELSE UNION { { [path |-> <<"services", IndexText(i), f>>,
                    type |-> IF f \in DOMAIN v[i] THEN "invalid" ELSE "any.required"] :
                     f \in {g \in {"description", "quantity", "rate", "amount"} :
                               g \notin DOMAIN v[i] \/ ~ServiceFieldOk(g, v[i][g])} } :
                 i \in DOMAIN v }

\* A validation that accepts every body as it is.
SchemaValidateKeepsAll(schema, body) == [details |-> {}, value |-> body]

\* schema.validate(body, { abortEarly: false, stripUnknown: true }):
\* details holds one entry per violation, value is the body without the
\* unknown keys and with the defaults.
SchemaValidate(schema, body) ==
    LET known    == DOMAIN body \cap KeysOf(schema)
        missing  == (Required(schema) \cup WhenRequired(schema, body)) \ known
        bad      == {k \in known : ~RuleOk(schema, k, body[k])}
        defaults == Defaults(schema)
        filled   == known \cup DOMAIN defaults
    IN  [ details |-> {[path |-> <<k>>, type |-> "any.required"] : k \in missing}
                      \cup {[path |-> <<k>>, type |-> "invalid"] :
                               k \in {b \in bad : LineDetails(b, body[b]) = {}}}
                      \cup UNION {LineDetails(k, body[k]) : k \in bad},
          value   |-> [k \in filled |-> IF k \in known THEN body[k] ELSE defaults[k]] ]

(***************************************************************************)
(* utils/invoiceNumber.js.  An invoice number is its prefix and the        *)
(* sequence of its decimal digits: "CI-007" is [prefix |-> "CI",           *)
(* digits |-> <<0, 0, 7>>].                                                *)
(***************************************************************************)
INVOICE_PREFIX == "CI"
MIN_DIGITS == 3

RECURSIVE ParseInt(_)
\* parseInt(digits, 10)
ParseInt(ds) ==
    IF ds = <<>> THEN 0
    ELSE 10 * ParseInt(SubSeq(ds, 1, Len(ds) - 1)) + ds[Len(ds)]

RECURSIVE ToDigits(_)
\* String(n), for n >= 0
ToDigits(n) ==
    IF n < 10 THEN <<n>> ELSE Append(ToDigits(n \div 10), n % 10)

RECURSIVE PadStart(_, _)
\* ds.padStart(len, '0')
PadStart(ds, len) ==
    IF Len(ds) >= len THEN ds ELSE PadStart(<<0>> \o ds, len)

\* lastNumber.match(new RegExp(`${INVOICE_PREFIX}-(\\d+)`))
PrefixMatch(number) == number.prefix = INVOICE_PREFIX /\ Len(number.digits) > 0

\* .eq('user_id', userId).order('created_at', { ascending: false }).limit(1)
LatestOf(table, userId) ==
    {r \in table : /\ r.user_id = userId
                   /\ \A o \in table : o.user_id = userId => o.created_at <= r.created_at}

generateInvoiceNumberFirst(table, userId) ==
    [prefix |-> INVOICE_PREFIX, digits |-> <<0, 0, 1>>]

\* The number generateInvoiceNumber returns when its query sees `table`.
generateInvoiceNumber(table, userId) ==
    LET data == LatestOf(table, userId)
        nextNumber ==
            IF data # {}
            THEN LET lastNumber == (CHOOSE r \in data : TRUE).invoice_number
                 IN  IF PrefixMatch(lastNumber)
                     THEN ParseInt(lastNumber.digits) + 1
                     ELSE 1
            ELSE 1
    IN  [prefix |-> INVOICE_PREFIX, digits |-> PadStart(ToDigits(nextNumber), MIN_DIGITS)]

(***************************************************************************)
(* services/invoiceService.js                                              *)
(***************************************************************************)
\* JavaScript's `d.k || alt` for a text value: undefined, null and '' are falsy.
TextOr(d, k, alt) ==
    IF k \in DOMAIN d /\ d[k] \notin {"", Null} THEN d[k] ELSE alt

\* JavaScript's `d.k || alt` for a number: undefined, null and 0 are falsy.
NumOr(d, k, alt) ==
    IF k \in DOMAIN d /\ d[k] \notin {0, NullNum} THEN d[k] ELSE alt

\* `d.k` sent to the database: an undefined property is left out of the
\* JSON, and the column holds NULL.
NumOrNull(d, k) == IF k \in DOMAIN d THEN d[k] ELSE NullNum

\* The status InvoiceService.create stores.
CreateStatusSent(invoiceData) == "sent"

CreateStatus(invoiceData) == "draft"

\* InvoiceService.create, lines 32-61: the record handed to insert().
BuildInvoice(userId, invoiceNumber, invoiceData) ==
    [ user_id          |-> userId,
      invoice_number   |-> invoiceNumber,
      document_type    |-> invoiceData["document_type"],
      status           |-> CreateStatus(invoiceData),
      customer_name    |-> invoiceData["customer_name"],
      customer_phone   |-> invoiceData["customer_phone"],
      customer_address |-> TextOr(invoiceData, "customer_address", Null),
      customer_email   |-> TextOr(invoiceData, "customer_email", Null),
      services         |-> invoiceData["services"],
      subtotal         |-> invoiceData["subtotal"],
      tax_enabled      |-> invoiceData["tax_enabled"],
      tax_percentage   |-> NumOrNull(invoiceData, "tax_percentage"),
      tax_amount       |-> invoiceData["tax_amount"],
      discount_amount  |-> NumOr(invoiceData, "discount_amount", 0),
      total_amount     |-> invoiceData["total_amount"],
      invoice_date     |-> invoiceData["invoice_date"],
      due_date         |-> TextOr(invoiceData, "due_date", Null),
      notes            |-> TextOr(invoiceData, "notes", Null) ]

\* insert(invoice).select().single(): the database adds the id, the
\* timestamps and the columns the record does not name.
InsertedRow(invoice, id, now) ==
    [k \in Columns |->
        IF k \in DOMAIN invoice THEN invoice[k]
        ELSE IF k = "id" THEN id
        ELSE IF k \in {"created_at", "updated_at"} THEN now
        ELSE IF k = "pdf_url" THEN NoUrl
        ELSE Null]

\* .eq('id', invoiceId).eq('user_id', userId)
ScopedUnscoped(table, userId, invoiceId) == {r \in table : r.id = invoiceId}

Scoped(table, userId, invoiceId) ==
    {r \in table : r.id = invoiceId /\ r.user_id = userId}

\* InvoiceService.duplicate, lines 225-241
DuplicatedData(original, todaysDate) ==
    [ document_type    |-> original.document_type,
      customer_name    |-> original.customer_name,
      customer_phone   |-> original.customer_phone,
      customer_address |-> original.customer_address,
      customer_email   |-> original.customer_email,
      services         |-> original.services,
      subtotal         |-> original.subtotal,
      tax_enabled      |-> original.tax_enabled,
      tax_percentage   |-> original.tax_percentage,
      tax_amount       |-> original.tax_amount,
      discount_amount  |-> original.discount_amount,
      total_amount     |-> original.total_amount,
      invoice_date     |-> todaysDate,
      due_date         |-> Null,
      notes            |-> original.notes ]

\* update({ ...updateData, updated_at }) applied to one row
UpdatedRow(r, updateData, now) ==
    [k \in Columns |->
        IF k = "updated_at" THEN now
        ELSE IF k \in DOMAIN updateData THEN updateData[k]
        ELSE r[k]]

\* PdfService.generatePdf(invoice): the PDF, known by the invoice it renders
PdfOf(invoice) == [id |-> invoice.id, user_id |-> invoice.user_id]

\* controllers/pdfController.js, lines 29 and 63: the storage filename
Filename(invoice) == [number |-> invoice.invoice_number, type |-> invoice.document_type]

(***************************************************************************)
(* middleware/errorHandler.js: the status answered for an error.           *)
(***************************************************************************)
RECURSIVE Join(_)
\* path.join('.')
Join(path) ==
    IF Len(path) = 1 THEN path[1]
    ELSE Join(SubSeq(path, 1, Len(path) - 1)) \o "." \o path[Len(path)]

\* err.details.map((d) => ({ field: d.path.join('.'), message: d.message }))
ErrorDetailsFirst(details) ==
    IF details = {} THEN {}
    ELSE LET d == CHOOSE e \in details : TRUE
         IN  {[field |-> Join(d.path), message |-> d.type]}

ErrorDetails(details) == {[field |-> Join(d.path), message |-> d.type] : d \in details}

\* The error text of the answer.
ErrorText(err) ==
    IF err = "Joi" THEN "Validation error"
    ELSE IF err = "PGRST116" THEN "Database error"
    ELSE IF err = "Invoice not found" THEN "Invoice not found"
    ELSE "Internal server error"

ErrorStatus(err) ==
    IF err = "Joi" THEN 400
    ELSE IF err = "PGRST116" THEN 400
    ELSE IF err = "Invoice not found" THEN 404
    ELSE 500

(***************************************************************************)
(* SpecAuth: one request through the router.                               *)
(***************************************************************************)
\* The API calls a page has under way at once.
MaxCalls == 2

Calls == 1..MaxCalls

NoPromise == 0

\* Nothing requested yet; the user is signed in with a fresh token.
ApiStart ==
    /\ session = "fresh"
    /\ refreshPromise = NoPromise
    /\ inFlight = {}
    /\ refreshes = 0
    /\ callPc = [c \in Calls |-> "idle"]
    /\ authRetried = [c \in Calls |-> FALSE]
    /\ retryCount = [c \in Calls |-> 0]
    /\ awaits = [c \in Calls |-> NoPromise]
    /\ delivered = [c \in Calls |-> "none"]
    /\ lastStatus = [c \in Calls |-> 0]
    /\ sends = [c \in Calls |-> 0]
    /\ resent429 = [c \in Calls |-> 0]
    /\ resent401 = [c \in Calls |-> 0]

\* The client when the page has loaded: an empty form and its totals.
ClientStart ==
    /\ form = [services |-> <<>>, tax_enabled |-> FALSE, tax_percentage |-> 0,
               discount_amount |-> 0]
    /\ calculations = [subtotal |-> 0, taxAmount |-> 0, total |-> 0]
    /\ storeInvoices = <<>>
    /\ storeFilters = [search |-> <<>>, type |-> "all", status |-> "all", sortBy |-> "newest"]
    /\ filtered = <<>>
    /\ ApiStart
    /\ isAuthenticated = TRUE
    /\ signingOut = FALSE
    /\ loggedOut = FALSE
    /\ authSession = TRUE
    /\ liveRefreshes = {}
    /\ page = "closed"
    /\ docType = "closed"
    /\ opened = NoBody
    /\ payload = NoBody
    /\ draft = NoBody
    /\ localDraft = NoBody
    /\ loaded = NoBody
    /\ lastDraftOp = "none"

\* The state of the table and the service when the server starts.
DbStart ==
    /\ invoices = {}
    /\ nextId = 1
    /\ clock = 0
    /\ storage = NoBody
    /\ reqs = EmptyBag
    /\ resp = NoResp
    /\ issued = [u \in Users |-> 0]
    /\ sent = NoBody

\* A request that has not entered the router.
RequestStart ==
    /\ pc = RouterEntry(route)
    /\ attempt = 0
    /\ lastError = NoError
    /\ user = NoUser
    /\ results = <<>>
    /\ resStatus = 0
    /\ resCount = 0
    /\ nextCalled = 0
    /\ reqUserId = NoUserId
    /\ ran = <<>>

InitAuth ==
    /\ authorization \in {"absent", "Basic", "Bearer"}
    /\ token \in Tokens
    /\ route \in Routes
    /\ RequestStart
    /\ DbStart
    /\ ClientStart
    /\ concurrency = 1
    /\ today = "2026-11-03"

\* authenticate, lines 36-46 and 69-70: the header check, then the loop starts.
AuthenticateHeader ==
    /\ UNCHANGED dbVars
    /\ pc = "authenticate"
    /\ IF authorization # "Bearer"
       THEN /\ Respond(401)
            /\ UNCHANGED <<attempt, lastError, user>>
       ELSE /\ pc' = "getUser"
            /\ attempt' = 0
            /\ lastError' = NoError
            /\ user' = NoUser
            /\ UNCHANGED <<resStatus, resCount>>
    /\ UNCHANGED <<authorization, token, route, results, nextCalled, reqUserId, ran>>

\* One iteration of the retry loop, lines 71-82, up to its await of the delay.
\* A rejected getUser leaves the try block for the catch of lines 120-126.
AuthenticateGetUser ==
    /\ UNCHANGED dbVars
    /\ pc = "getUser"
    /\ attempt <= AUTH_GET_USER_RETRIES
    /\ \E r \in ProviderResults(token) :
          /\ results' = Append(results, r)
          /\ IF r.thrown
             THEN /\ Respond(500)
                  /\ UNCHANGED <<attempt, lastError, user>>
             ELSE IF r.error.none /\ r.user # NoUser
             THEN /\ user' = r.user
                  /\ pc' = "outcome"
                  /\ UNCHANGED <<attempt, lastError, resStatus, resCount>>
             ELSE /\ lastError' = r.error
                  /\ IF r.error.none \/ ~isTransientAuthError(r.error)
                     THEN pc' = "outcome" /\ attempt' = attempt
                     ELSE IF attempt < AUTH_GET_USER_RETRIES
                     THEN pc' = "delay" /\ attempt' = attempt
                     ELSE pc' = "outcome" /\ attempt' = attempt + 1
                  /\ UNCHANGED <<user, resStatus, resCount>>
    /\ UNCHANGED <<authorization, token, route, nextCalled, reqUserId, ran>>

\* The setTimeout of line 80 elapsed: attempt++ and the loop goes on.
AuthenticateDelay ==
    /\ UNCHANGED dbVars
    /\ pc = "delay"
    /\ attempt' = attempt + 1
    /\ pc' = "getUser"
    /\ UNCHANGED <<authorization, token, route, lastError, user, results,
                   resStatus, resCount, nextCalled, reqUserId, ran>>

\* Lines 94-119: the answer, or req.userId and next().
AuthenticateOutcome ==
    /\ UNCHANGED dbVars
    /\ pc = "outcome"
    /\ IF ~lastError.none \/ user = NoUser
       THEN /\ IF ~lastError.none /\ isTransientAuthError(lastError)
               THEN Respond(503)
               ELSE Respond(401)
            /\ UNCHANGED <<nextCalled, reqUserId>>
       ELSE /\ reqUserId' = user
            /\ nextCalled' = nextCalled + 1
            /\ pc' = AfterAuthenticate(route)
            /\ UNCHANGED <<resStatus, resCount>>
    /\ UNCHANGED <<authorization, token, route, attempt, lastError, user, results, ran>>

\* validate(schema): the body is rejected (next(error), the error handler
\* answers 400) or accepted (next(), the controller follows).
ValidateStage ==
    /\ UNCHANGED dbVars
    /\ pc = "validate"
    /\ ran' = Append(ran, "validate")
    /\ \E accepted \in BOOLEAN :
          IF accepted
          THEN pc' = "controller" /\ UNCHANGED <<resStatus, resCount>>
          ELSE Respond(400)
    /\ UNCHANGED <<authorization, token, route, attempt, lastError, user, results,
                   nextCalled, reqUserId>>

\* The route's controller runs with req.userId and answers.
ControllerStage ==
    /\ UNCHANGED dbVars
    /\ pc = "controller"
    /\ ran' = Append(ran, route.controller)
    /\ \E status \in {200, 404} : Respond(status)
    /\ UNCHANGED <<authorization, token, route, attempt, lastError, user, results,
                   nextCalled, reqUserId>>

NextAuth ==
    /\ UNCHANGED clientVars
    /\ \/ AuthenticateHeader
       \/ AuthenticateGetUser
       \/ AuthenticateDelay
       \/ AuthenticateOutcome
       \/ ValidateStage
       \/ ControllerStage

SpecAuth == InitAuth /\ [][NextAuth]_vars

(***************************************************************************)
(* SpecDb: the controllers and the invoice service, for requests that      *)
(* passed authenticate (userId is req.userId).  A request that awaits      *)
(* more than one query is in reqs between its queries, so the queries of   *)
(* concurrent requests interleave.                                         *)
(***************************************************************************)
MaxInvoices == 2
MaxClock    == 3
MaxInFlight == 2

Ids == 1 .. MaxInvoices

OneService == <<[description |-> "Wardrobe", quantity |-> 2, rate |-> 500, amount |-> 1000]>>

\* The bodies sent to POST /api/invoices.
FullBody ==
    [ document_type |-> "invoice", customer_name |-> "Rajan Kumar",
      customer_phone |-> "9876543210", customer_address |-> "12 Main St",
      customer_email |-> "rajan@example.com", services |-> OneService,
      subtotal |-> 1000, tax_enabled |-> TRUE, tax_percentage |-> 18,
      tax_amount |-> 180, discount_amount |-> 50, total_amount |-> 1130,
      invoice_date |-> "2026-02-12", due_date |-> "2026-03-12", notes |-> "Thanks" ]

SparseBody ==
    [ document_type |-> "estimate", customer_name |-> "Meena",
      customer_phone |-> "+919876543210", customer_address |-> "",
      services |-> OneService, subtotal |-> 1000, tax_enabled |-> FALSE,
      tax_amount |-> 0, total_amount |-> 1000, invoice_date |-> "2026-02-12",
      status |-> "paid" ]

ShortNameBody == [FullBody EXCEPT !["customer_name"] = "R"]

\* A body whose only service line is free of charge.
FreeLineBody ==
    [ document_type |-> "estimate", customer_name |-> "Meena",
      customer_phone |-> "+919876543210",
      services |-> <<[description |-> "Site visit", quantity |-> 1, rate |-> 0, amount |-> 0]>>,
      subtotal |-> 0, tax_enabled |-> FALSE, tax_amount |-> 0, total_amount |-> 0,
      invoice_date |-> "2026-02-12" ]

\* A body with a negative total.
NegativeTotalBody == [FullBody EXCEPT !["total_amount"] = 0 - 50]

CreateBodies == {FullBody, SparseBody, ShortNameBody, FreeLineBody, NegativeTotalBody}

\* The bodies sent to PUT /api/invoices/:id.
UpdateBodies ==
    { [notes |-> "Call first"],
      [customer_address |-> "", discount_amount |-> 20],
      [status |-> "paid", user_id |-> "userB"],
      [tax_enabled |-> TRUE],
      [discount_amount |-> 0 - 5, subtotal |-> 0 - 10],
      [services |-> <<[description |-> "Wardrobe", quantity |-> 2,
                       rate |-> 0 - 500, amount |-> 1000]>>] }

\* The bodies sent to PUT /api/invoices/:id/status.
StatusBodies == { [status |-> "paid"], [status |-> "cancelled"] }

\* The query strings sent to GET /api/invoices, after parsePositiveInt.
FilterPool ==
    { [type |-> "all", status |-> "all", sort |-> "newest", page |-> 1, limit |-> 20],
      [type |-> "estimate", status |-> "draft", sort |-> "oldest", page |-> 1, limit |-> 1] }

InitDb ==
    /\ DbStart
    /\ ClientStart
    /\ concurrency = 1
    /\ today = "2026-11-03"
    /\ authorization = "Bearer"
    /\ token = "tokA"
    /\ route = CHOOSE r \in Routes : r.path = "GET /"
    /\ RequestStart

\* res.status(status).json(...), with what the response was computed from.
Answer(op, userId, invoiceId, status, data, request, before, source, url) ==
    [op |-> op, user |-> userId, id |-> invoiceId, status |-> status, data |-> data,
     request |-> request, before |-> before, source |-> source, url |-> url,
     error |-> "", details |-> {}]

\* next(error), answered by errorHandler.
Failure(op, userId, invoiceId, err, request, details) ==
    [Answer(op, userId, invoiceId, ErrorStatus(err), {}, request, {}, {}, NoUrl)
        EXCEPT !.error = ErrorText(err), !.details = ErrorDetails(details)]

One(S) == CHOOSE x \in S : TRUE

Max(a, b) == IF a >= b THEN a ELSE b

InFlight == BagCardinality(reqs)

\* The requests in flight that will insert a row.
Inserting == {r \in BagToSet(reqs) : r.op \in {"create", "duplicate"}}

InsertsPending == BagCardinality([r \in Inserting |-> reqs[r]])

\* A request is taken up while fewer than concurrency requests are in
\* process.
CanStart == InFlight < concurrency

\* No more inserts are begun than MaxInvoices rows allow.
CanStartInsert ==
    /\ CanStart
    /\ (nextId - 1) + InsertsPending < MaxInvoices

Put(r)       == reqs (+) SetToBag({r})
Take(r)      == reqs (-) SetToBag({r})
Move(r, r2)  == (reqs (-) SetToBag({r})) (+) SetToBag({r2})

\* POST /: validate(createInvoiceSchema), createInvoice, and
\* InvoiceService.create up to the answer of generateInvoiceNumber's query.
CreateInvoice(userId, body) ==
    LET v == SchemaValidate("createInvoiceSchema", body)
    IN  /\ userId \in Users
        /\ CanStart
        /\ IF v.details # {}
           THEN /\ resp' = Failure("create", userId, 0, "Joi", body, v.details)
                /\ UNCHANGED reqs
           ELSE /\ CanStartInsert
                /\ reqs' = Put([op |-> "create", user |-> userId, pc |-> "insert",
                                data |-> v.value, raw |-> body, source |-> {},
                                number |-> generateInvoiceNumber(invoices, userId)])
                /\ UNCHANGED resp
        /\ UNCHANGED <<concurrency, invoices, nextId, clock, today, storage, issued, sent>>

\* POST /:id/duplicate: InvoiceService.duplicate up to the answer of getById.
DuplicateInvoice(userId, invoiceId) ==
    LET found == Scoped(invoices, userId, invoiceId)
    IN  /\ userId \in Users
        /\ CanStart
        /\ IF found = {}
           THEN /\ resp' = Failure("duplicate", userId, invoiceId, "Invoice not found", NoBody, {})
                /\ UNCHANGED reqs
           ELSE /\ CanStartInsert
                /\ reqs' = Put([op |-> "duplicate", user |-> userId, pc |-> "generate",
                                data |-> DuplicatedData(One(found), today), raw |-> NoBody,
                                source |-> found, number |-> NoUrl.number])
                /\ UNCHANGED resp
        /\ UNCHANGED <<concurrency, invoices, nextId, clock, today, storage, issued, sent>>

\* this.create(userId, duplicatedData): the query of generateInvoiceNumber.
DuplicateGenerate(r) ==
    /\ r.op = "duplicate" /\ r.pc = "generate"
    /\ r.user \in Users
    /\ reqs' = Move(r, [r EXCEPT !.pc = "insert",
                                 !.number = generateInvoiceNumber(invoices, r.user)])
    /\ UNCHANGED <<concurrency, invoices, nextId, clock, today, storage, resp, issued, sent>>

\* InvoiceService.create, lines 32-70: the insert, and the 201 answer of
\* createInvoice / duplicateInvoice.
CreateInsert(r) ==
    /\ r.op \in {"create", "duplicate"} /\ r.pc = "insert"
    /\ LET row == InsertedRow(BuildInvoice(r.user, r.number, r.data), nextId, clock + 1)
       IN  /\ invoices' = invoices \cup {row}
           /\ resp' = Answer(r.op, r.user, IF r.source = {} THEN 0 ELSE One(r.source).id, 201,
                             {row}, r.raw, {}, r.source, NoUrl)
           /\ issued' = [issued EXCEPT ![r.user] = Max(@, ParseInt(r.number.digits))]
           /\ sent' = IF r.op = "create"
                      THEN [i \in DOMAIN sent \cup {nextId} |->
                               IF i = nextId THEN r.raw ELSE sent[i]]
                      ELSE sent
    /\ r.user \in Users
    /\ nextId' = nextId + 1
    /\ clock' = clock + 1
    /\ reqs' = Take(r)
    /\ UNCHANGED <<concurrency, today, storage>>

\* GET /:id
GetInvoiceById(userId, invoiceId) ==
    LET found == Scoped(invoices, userId, invoiceId)
    IN  /\ userId \in Users
        /\ CanStart
        /\ resp' = IF found = {}
                   THEN Failure("getById", userId, invoiceId, "Invoice not found", NoBody, {})
                   ELSE Answer("getById", userId, invoiceId, 200, found, NoBody, {}, {}, NoUrl)
        /\ UNCHANGED <<concurrency, invoices, nextId, clock, today, storage, reqs, issued, sent>>

\* InvoiceService.getAll: the filters, the order and the range of the query.
GetAllRows(table, userId, filters) ==
    LET matching ==
            {r \in table :
                /\ r.user_id = userId
                /\ filters.type = "all" \/ r.document_type = filters.type
                /\ filters.status = "all" \/ r.status = filters.status}
        Before(a, b) ==
            CASE filters.sort = "oldest"      -> a.created_at < b.created_at
              [] filters.sort = "amount_high" -> a.total_amount > b.total_amount
              [] filters.sort = "amount_low"  -> a.total_amount < b.total_amount
              [] OTHER                        -> a.created_at > b.created_at
        Rank(r) == Cardinality({o \in matching : Before(o, r)})
        from == (filters.page - 1) * filters.limit
        to   == from + filters.limit - 1
    IN  {r \in matching : Rank(r) >= from /\ Rank(r) <= to}

\* GET /
GetAllInvoices(userId, filters) ==
    /\ userId \in Users
    /\ CanStart
    /\ resp' = Answer("getAll", userId, 0, 200, GetAllRows(invoices, userId, filters),
                      NoBody, {}, {}, NoUrl)
    /\ UNCHANGED <<concurrency, invoices, nextId, clock, today, storage, reqs, issued, sent>>

\* GET /stats: every query of getStats selects .eq('user_id', userId).
GetInvoiceStats(userId) ==
    /\ userId \in Users
    /\ CanStart
    /\ resp' = Answer("stats", userId, 0, 200, {r \in invoices : r.user_id = userId},
                      NoBody, {}, {}, NoUrl)
    /\ UNCHANGED <<concurrency, invoices, nextId, clock, today, storage, reqs, issued, sent>>

\* InvoiceService.update and the answer of the controller that called it:
\* .single() gives PGRST116 when no row matched.
ServiceUpdate(op, userId, invoiceId, body, updateData) ==
    LET found == Scoped(invoices, userId, invoiceId)
        now   == clock + 1
    IN  IF found = {}
        THEN /\ resp' = Failure(op, userId, invoiceId, "PGRST116", body, {})
             /\ UNCHANGED <<invoices, clock, sent>>
        ELSE LET old == One(found)
                 new == UpdatedRow(old, updateData, now)
             IN  /\ clock < MaxClock
                 /\ invoices' = (invoices \ {old}) \cup {new}
                 /\ clock' = now
                 /\ resp' = Answer(op, userId, invoiceId, 200, {new}, body, {old}, {}, NoUrl)
                 /\ sent' = [i \in DOMAIN sent \ {invoiceId} |-> sent[i]]

\* PUT /:id: validate(updateInvoiceSchema), updateInvoice
UpdateInvoice(userId, invoiceId, body) ==
    LET v == SchemaValidate("updateInvoiceSchema", body)
    IN  /\ userId \in Users
        /\ CanStart
        /\ IF v.details # {}
           THEN /\ resp' = Failure("update", userId, invoiceId, "Joi", body, v.details)
                /\ UNCHANGED <<invoices, clock, sent>>
           ELSE ServiceUpdate("update", userId, invoiceId, body, v.value)
        /\ UNCHANGED <<concurrency, nextId, today, storage, reqs, issued>>

\* PUT /:id/status: validate(updateStatusSchema), updateInvoiceStatus
UpdateInvoiceStatus(userId, invoiceId, body) ==
    LET v == SchemaValidate("updateStatusSchema", body)
    IN  /\ userId \in Users
        /\ CanStart
        /\ IF v.details # {}
           THEN /\ resp' = Failure("status", userId, invoiceId, "Joi", body, v.details)
                /\ UNCHANGED <<invoices, clock, sent>>
           ELSE ServiceUpdate("status", userId, invoiceId, body,
                              [status |-> v.value["status"]])
        /\ UNCHANGED <<concurrency, nextId, today, storage, reqs, issued>>

\* DELETE /:id: no error when no row matched.
DeleteInvoice(userId, invoiceId) ==
    /\ userId \in Users
    /\ CanStart
    /\ invoices' = invoices \ Scoped(invoices, userId, invoiceId)
    /\ resp' = Answer("delete", userId, invoiceId, 200, {}, NoBody,
                      Scoped(invoices, userId, invoiceId), {}, NoUrl)
    /\ sent' = IF Scoped(invoices, userId, invoiceId) = {} THEN sent
               ELSE [i \in DOMAIN sent \ {invoiceId} |-> sent[i]]
    /\ UNCHANGED <<concurrency, nextId, clock, today, storage, reqs, issued>>

\* GET /:id/pdf: getById, then the PDF of that invoice.
GeneratePdf(userId, invoiceId) ==
    LET found == Scoped(invoices, userId, invoiceId)
    IN  /\ userId \in Users
        /\ CanStart
        /\ resp' = IF found = {}
                   THEN Failure("pdf", userId, invoiceId, "Invoice not found", NoBody, {})
                   ELSE Answer("pdf", userId, invoiceId, 200, found, NoBody, {}, {}, NoUrl)
        /\ UNCHANGED <<concurrency, invoices, nextId, clock, today, storage, reqs, issued, sent>>

\* POST /:id/pdf/upload: generateAndUploadPdf up to the PDF buffer.
GenerateAndUploadPdf(userId, invoiceId) ==
    LET found == Scoped(invoices, userId, invoiceId)
    IN  /\ userId \in Users
        /\ CanStart
        /\ IF found = {}
           THEN /\ resp' = Failure("upload", userId, invoiceId, "Invoice not found", NoBody, {})
                /\ UNCHANGED reqs
           ELSE /\ CanStart
                /\ reqs' = Put([op |-> "upload", user |-> userId, pc |-> "store",
                                invoice |-> One(found)])
                /\ UNCHANGED resp
        /\ UNCHANGED <<concurrency, invoices, nextId, clock, today, storage, issued, sent>>

\* PdfService.uploadPdf, lines 698-705: upload(`pdfs/${filename}`, upsert)
UploadPdfStore(r) ==
    /\ r.op = "upload" /\ r.pc = "store"
    /\ r.user \in Users
    /\ storage' = [f \in DOMAIN storage \cup {Filename(r.invoice)} |->
                      IF f = Filename(r.invoice) THEN PdfOf(r.invoice) ELSE storage[f]]
    /\ reqs' = Move(r, [r EXCEPT !.pc = "setUrl"])
    /\ UNCHANGED <<concurrency, invoices, nextId, clock, today, resp, issued, sent>>

\* PdfService.uploadPdf, lines 708-718, and the answer of the controller:
\* update({ pdf_url }).eq('id', invoiceId), its result not looked at.
UploadPdfSetUrl(r) ==
    /\ r.op = "upload" /\ r.pc = "setUrl"
    /\ r.user \in Users
    /\ invoices' = {IF row.id = r.invoice.id
                    THEN [row EXCEPT !["pdf_url"] = Filename(r.invoice)]
                    ELSE row : row \in invoices}
    /\ resp' = Answer("upload", r.user, r.invoice.id, 200, {}, NoBody, {}, {r.invoice}, Filename(r.invoice))
    /\ sent' = [i \in DOMAIN sent \ {r.invoice.id} |-> sent[i]]
    /\ reqs' = Take(r)
    /\ UNCHANGED <<concurrency, nextId, clock, today, storage, issued>>

\* One user sends requests one at a time.
NextDb ==
    /\ UNCHANGED <<authVars, clientVars>>
    /\ \/ \E b \in CreateBodies : CreateInvoice("userA", b)
       \/ \E i \in Ids : DuplicateInvoice("userA", i)
       \/ \E r \in BagToSet(reqs) : DuplicateGenerate(r)
       \/ \E r \in BagToSet(reqs) : CreateInsert(r)
       \/ \E i \in Ids : GetInvoiceById("userA", i)
       \/ \E i \in Ids, b \in UpdateBodies : UpdateInvoice("userA", i, b)
       \/ \E i \in Ids, b \in StatusBodies : UpdateInvoiceStatus("userA", i, b)
       \/ \E i \in Ids : DeleteInvoice("userA", i)

SpecDb == InitDb /\ [][NextDb]_vars

(***************************************************************************)
(* SpecRace: the handlers that assign, keep or remove invoice numbers,     *)
(* with MaxInFlight requests in flight, so that the queries of concurrent  *)
(* requests of one user interleave.                                        *)
(***************************************************************************)
InitRace ==
    /\ DbStart
    /\ ClientStart
    /\ concurrency = MaxInFlight
    /\ today = "2026-11-03"
    /\ authorization = "Bearer"
    /\ token = "tokA"
    /\ route = CHOOSE r \in Routes : r.path = "POST /"
    /\ RequestStart

NextRace ==
    /\ UNCHANGED <<authVars, clientVars>>
    /\ \/ \E u \in Users : CreateInvoice(u, SparseBody)
       \/ \E u \in Users, i \in Ids : DuplicateInvoice(u, i)
       \/ \E r \in BagToSet(reqs) : DuplicateGenerate(r)
       \/ \E r \in BagToSet(reqs) : CreateInsert(r)
       \/ \E u \in Users, i \in Ids : UpdateInvoiceStatus(u, i, [status |-> "paid"])
       \/ \E u \in Users, i \in Ids : DeleteInvoice(u, i)

SpecRace == InitRace /\ [][NextRace]_vars

(***************************************************************************)
(* SpecIso: userA sends every kind of request under /api/invoices, with    *)
(* any id, while userB creates invoices and uploads their PDFs; up to      *)
(* MaxInFlight requests are in flight.                                     *)
(***************************************************************************)
InitIso ==
    /\ DbStart
    /\ ClientStart
    /\ concurrency = MaxInFlight
    /\ today = "2026-11-03"
    /\ authorization = "Bearer"
    /\ token = "tokA"
    /\ route = CHOOSE r \in Routes : r.path = "GET /:id"
    /\ RequestStart

NextIso ==
    /\ UNCHANGED <<authVars, clientVars>>
    /\ \/ \E u \in Users : CreateInvoice(u, SparseBody)
       \/ \E r \in BagToSet(reqs) : CreateInsert(r)
       \/ \E i \in Ids : DuplicateInvoice("userA", i)
       \/ \E r \in BagToSet(reqs) : DuplicateGenerate(r)
       \/ \E i \in Ids : GetInvoiceById("userA", i)
       \/ GetAllInvoices("userA", One(FilterPool))
       \/ GetInvoiceStats("userA")
       \/ \E i \in Ids : UpdateInvoice("userA", i, [notes |-> "Call first"])
       \/ \E i \in Ids : UpdateInvoiceStatus("userA", i, [status |-> "paid"])
       \/ \E i \in Ids : DeleteInvoice("userA", i)
       \/ \E i \in Ids : GeneratePdf("userA", i)
       \/ \E u \in Users, i \in Ids : GenerateAndUploadPdf(u, i)
       \/ \E r \in BagToSet(reqs) : UploadPdfStore(r)
       \/ \E r \in BagToSet(reqs) : UploadPdfSetUrl(r)

SpecIso == InitIso /\ [][NextIso]_vars

(***************************************************************************)
(* SpecCalc: client/src/hooks/useInvoiceCalculations.js.  The form is      *)
(* edited field by field and the hook's useMemo recomputes the totals on   *)
(* every change.  Money is counted in thousandths of a rupee, so that      *)
(* 1005 is 1.005 and a value with two decimals is a multiple of 10.        *)
(***************************************************************************)
MaxLines == 2

\* The amounts, percentages and discounts the form is filled with.
AmountPool   == {0, 500, 1005, 200000}
PercentPool  == {0, 3, 18, 100}
DiscountPool == {0, 5, 1000, 500000}

RECURSIVE SumAmounts(_)
\* services.reduce((sum, s) => sum + (Number(s.amount) || 0), 0)
SumAmounts(services) ==
    IF services = <<>> THEN 0
    ELSE SumAmounts(SubSeq(services, 1, Len(services) - 1)) + services[Len(services)].amount

\* parseFloat((n / d).toFixed(2)) for n >= 0: the value with two decimals
\* nearest to n / d.  At a tie the digit toFixed picks depends on the
\* double that stands for n / d, so both neighbours are possible.
ToFixed2(n, d) ==
    LET lo    == 10 * (n \div (10 * d))
        twice == 2 * (n - lo * d)
    IN  IF twice < 10 * d THEN {lo}
        ELSE IF twice > 10 * d THEN {lo + 10}
        ELSE {lo, lo + 10}

\* Math.max(x, 0)
AtLeastZeroNot(x) == x

AtLeastZero(x) == IF x > 0 THEN x ELSE 0

\* The values the useMemo of lines 33-50 can return for these fields.
Calculations(f) ==
    LET subtotal == SumAmounts(f.services)
        taxes    == IF f.tax_enabled
                    THEN ToFixed2(subtotal * f.tax_percentage, 100)
                    ELSE {0}
        discount == f.discount_amount
    IN  UNION { { [subtotal |-> subtotal, taxAmount |-> taxAmount, total |-> total] :
                    total \in ToFixed2(AtLeastZero(subtotal + taxAmount - discount), 1) } :
                taxAmount \in taxes }

\* The form of a page that has just loaded.
InitCalc == InitDb

\* setValue(name, value) on a watched field, then the re-render.
SetValue(name, value) ==
    /\ form' = [form EXCEPT ![name] = value]
    /\ calculations' \in Calculations(form')

\* useFieldArray append / remove of a service line.
AppendService ==
    /\ Len(form.services) < MaxLines
    /\ \E a \in AmountPool :
          SetValue("services", Append(form.services, [amount |-> a]))

RemoveService ==
    /\ form.services # <<>>
    /\ SetValue("services", SubSeq(form.services, 1, Len(form.services) - 1))

ToggleTax == SetValue("tax_enabled", ~form.tax_enabled)

SetTaxPercentage == \E p \in PercentPool : SetValue("tax_percentage", p)

SetDiscount == \E d \in DiscountPool : SetValue("discount_amount", d)

NextCalc ==
    /\ UNCHANGED <<authVars, dbVars, storeVars, apiVars, logoutVars, formVars>>
    /\ \/ AppendService
       \/ RemoveService
       \/ ToggleTax
       \/ SetTaxPercentage
       \/ SetDiscount

SpecCalc == InitCalc /\ [][NextCalc]_vars

(***************************************************************************)
(* client/src/store/invoiceStore.js: the list of the history view.         *)
(*                                                                         *)
(* A text is a sequence of characters.  created_at is the timestamp the    *)
(* database wrote, counted in microseconds (timestamptz keeps six decimals *)
(* of a second); a JavaScript Date keeps milliseconds.                     *)
(***************************************************************************)

\* The longest list the store is given.
MaxList == 3

\* String.prototype.toLowerCase, one character at a time.
LowerChar(c) ==
    CASE c = "R" -> "r"
      [] c = "A" -> "a"
      [] c = "E" -> "e"
      [] c = "C" -> "c"
      [] OTHER   -> c

LowerText(s) == [i \in DOMAIN s |-> LowerChar(s[i])]

\* s.includes(part)
IncludesText(s, part) ==
    \E i \in 0..(Len(s) - Len(part)) :
        \A j \in 1..Len(part) : s[i + j] = part[j]

\* new Date(created_at): the time value of a Date is a whole number of
\* milliseconds.
DateOf(created_at) == created_at \div 1000

\* The comparator of each sortBy: negative, zero or positive.
Compare(sortBy, a, b) ==
    CASE sortBy = "newest"      -> DateOf(b.created_at) - DateOf(a.created_at)
      [] sortBy = "oldest"      -> DateOf(a.created_at) - DateOf(b.created_at)
      [] sortBy = "amount_high" -> NumOr(b, "total_amount", 0) - NumOr(a, "total_amount", 0)
      [] sortBy = "amount_low"  -> NumOr(a, "total_amount", 0) - NumOr(b, "total_amount", 0)
      [] OTHER                  -> 0

\* x put into a sorted list, behind everything that does not come after it.
InsertSorted(sortBy, x, sorted) ==
    LET before == { i \in DOMAIN sorted : Compare(sortBy, sorted[i], x) <= 0 }
        n      == IF before = {} THEN 0
                  ELSE CHOOSE i \in before : \A j \in before : j <= i
    IN  SubSeq(sorted, 1, n) \o <<x>> \o SubSeq(sorted, n + 1, Len(sorted))

\* Array.prototype.sort with a comparator: a stable sort.
RECURSIVE Sort(_, _)
Sort(sortBy, list) ==
    IF list = <<>> THEN <<>>
    ELSE InsertSorted(sortBy, list[Len(list)], Sort(sortBy, SubSeq(list, 1, Len(list) - 1)))

\* The three predicates of getFilteredInvoices.
SearchKeeps(f, inv) ==
    f.search # <<>> =>
        \/ IncludesText(LowerText(inv.customer_name), LowerText(f.search))
        \/ IncludesText(LowerText(inv.invoice_number), LowerText(f.search))

TypeKeeps(f, inv) == f.type # "all" => inv.document_type = f.type

StatusKeeps(f, inv) == f.status # "all" => inv.status = f.status

Keeps(f, inv) == SearchKeeps(f, inv) /\ TypeKeeps(f, inv) /\ StatusKeeps(f, inv)

getFilteredInvoices(list, f) ==
    Sort(f.sortBy, SelectSeq(list, LAMBDA inv : Keeps(f, inv)))

\* The invoices the lists are made of.  Rows 3 and 4 were written within
\* the same millisecond; rows 2 and 5 have the same total.
StoreRow(id, name, number, type, status, created, total) ==
    [id |-> id, customer_name |-> name, invoice_number |-> number,
     document_type |-> type, status |-> status, created_at |-> created,
     total_amount |-> total]

InvoicePool ==
    { StoreRow(1, <<"R", "a", "j">>, <<"C", "I", "1">>, "invoice",  "paid",  1000, 75000),
      StoreRow(2, <<"A", "n", "u">>, <<"E", "S", "1">>, "estimate", "draft", 2000, 25000),
      StoreRow(3, <<"r", "a", "m">>, <<"C", "I", "2">>, "invoice",  "sent",  3100, 50000),
      StoreRow(4, <<"R", "a", "j">>, <<"C", "I", "3">>, "invoice",  "paid",  3900, 0),
      StoreRow(5, <<"M", "e", "e">>, <<"E", "S", "2">>, "estimate", "paid",  5000, 25000) }

RECURSIVE ListsOf(_)
ListsOf(n) ==
    IF n = 0 THEN { <<>> }
    ELSE LET shorter == ListsOf(n - 1)
         IN  shorter \cup { Append(l, inv) : l \in { s \in shorter : Len(s) = n - 1 },
                                             inv \in InvoicePool }

\* A list holds a row once.
ListPool == { l \in ListsOf(MaxList) : \A i, j \in DOMAIN l : l[i].id = l[j].id => i = j }

SearchPool == { <<>>, <<"R", "A">>, <<"c", "i">>, <<"1">>, <<"z">> }

FilterUpdates ==
    { [search |-> s] : s \in SearchPool }
    \cup { [type |-> t] : t \in {"all", "invoice", "estimate"} }
    \cup { [status |-> st] : st \in {"all", "draft", "sent", "paid"} }
    \cup { [sortBy |-> by] : by \in {"newest", "oldest", "amount_high", "amount_low"} }

InitFilter == InitDb

\* setInvoices(invoices), and the view rendered again.
setInvoices(list) ==
    /\ storeInvoices' = list
    /\ filtered' = getFilteredInvoices(list, storeFilters)
    /\ UNCHANGED storeFilters

\* setFilters(filterUpdate): { ...state.filters, ...filterUpdate }
setFilters(filterUpdate) ==
    /\ storeFilters' = [k \in DOMAIN storeFilters |->
                      IF k \in DOMAIN filterUpdate THEN filterUpdate[k] ELSE storeFilters[k]]
    /\ storeFilters' # storeFilters
    /\ filtered' = getFilteredInvoices(storeInvoices, storeFilters')
    /\ UNCHANGED storeInvoices

resetFilters ==
    /\ storeFilters' = [search |-> <<>>, type |-> "all", status |-> "all", sortBy |-> "newest"]
    /\ storeFilters' # storeFilters
    /\ filtered' = getFilteredInvoices(storeInvoices, storeFilters')
    /\ UNCHANGED storeInvoices

NextFilter ==
    /\ UNCHANGED <<authVars, dbVars, calcVars, apiVars, logoutVars, formVars>>
    /\ \/ \E list \in ListPool : setInvoices(list)
       \/ \E filterUpdate \in FilterUpdates : setFilters(filterUpdate)
       \/ resetFilters

SpecFilter == InitFilter /\ [][NextFilter]_vars

(***************************************************************************)
(* The history page (pages/InvoiceHistory.jsx): on mount it asks           *)
(* GET /api/invoices without query parameters, puts the answer into the    *)
(* store and shows getFilteredInvoices().                                  *)
(***************************************************************************)

\* The most invoices the signed-in user stores, and the most of anybody else.
MaxStored == 22
MaxOthers == 1

\* The user signed in at the browser.
Viewer == "userA"

\* The filters getAllInvoices builds from a request without a query string:
\* parsePositiveInt(undefined, 1) and parsePositiveInt(undefined, 20).
NoQueryFilters ==
    [type |-> "all", status |-> "all", sort |-> "newest", page |-> 1, limit |-> 20]

\* The rows of a query answer in the order of .order('created_at',
\* { ascending: false }).
RECURSIVE NewestFirst(_)
NewestFirst(rows) ==
    IF rows = {} THEN <<>>
    ELSE LET first == CHOOSE r \in rows : \A o \in rows : o.created_at <= r.created_at
         IN  <<first>> \o NewestFirst(rows \ {first})

\* response.data.data.invoices of invoiceApi.getAll()
FetchAll(table, userId) == NewestFirst(GetAllRows(table, userId, NoQueryFilters))

\* The row with the given id: its columns vary with the id.
HistoryRow(id, userId) ==
    [id |-> id, user_id |-> userId,
     customer_name |-> <<"R", "a", "j">>, invoice_number |-> <<"C", "I", "1">>,
     document_type |-> IF id % 2 = 0 THEN "invoice" ELSE "estimate",
     status |-> <<"paid", "draft", "sent">>[(id % 3) + 1],
     created_at |-> id * 1000,
     total_amount |-> (id % 4) * 25000]

HistoryFilterUpdates == { [status |-> "paid"], [status |-> "all"], [sortBy |-> "oldest"] }

InitHistory == InitDb

\* A user stores one more invoice.
StoreInvoice(userId) ==
    /\ userId = Viewer => Cardinality({r \in invoices : r.user_id = Viewer}) < MaxStored
    /\ userId # Viewer => Cardinality({r \in invoices : r.user_id # Viewer}) < MaxOthers
    /\ invoices' = invoices \cup {HistoryRow(nextId, userId)}
    /\ nextId' = nextId + 1
    /\ UNCHANGED storeVars

\* The page is opened: fetchAll() and resetFilters().
MountHistory ==
    /\ storeInvoices' = FetchAll(invoices, Viewer)
    /\ storeFilters' = [search |-> <<>>, type |-> "all", status |-> "all", sortBy |-> "newest"]
    /\ filtered' = getFilteredInvoices(storeInvoices', storeFilters')
    /\ <<storeInvoices', storeFilters'>> # <<storeInvoices, storeFilters>>
    /\ UNCHANGED <<invoices, nextId>>

\* A filter chip or a sort option is picked.
PickFilter(filterUpdate) ==
    /\ setFilters(filterUpdate)
    /\ UNCHANGED <<invoices, nextId>>

NextHistory ==
    /\ UNCHANGED <<authVars, calcVars, apiVars, logoutVars, formVars, clock, today, storage, reqs, concurrency, resp, issued, sent>>
    /\ \/ \E userId \in Users : StoreInvoice(userId)
       \/ MountHistory
       \/ \E filterUpdate \in HistoryFilterUpdates : PickFilter(filterUpdate)

SpecHistory == InitHistory /\ [][NextHistory]_vars

(***************************************************************************)
(* client/src/services/api.js and client/src/store/authStore.js: the       *)
(* axios interceptors and the shared token refresh.                        *)
(*                                                                         *)
(* A call goes idle -> getToken -> (awaitToken -> (fallback)) -> sent, and *)
(* from sent to resolved, rejected, await401 or backoff; from the last two *)
(* back to getToken, because api(config) runs the request interceptor      *)
(* again.  The call made inside the response interceptor carries the same  *)
(* config, and its outcome is the outcome of the outer call, so the two    *)
(* are one call here.  The steps of different calls interleave freely,     *)
(* which includes every order the event loop can produce.                  *)
(***************************************************************************)

maxRetries == 3

\* What the API answers, and what supabase.auth.refreshSession() gives:
\* a session, { session: null, error } or an exception.
Statuses == {200, 401, 429, 500}

RefreshResults == {"session", "noSession", "threw"}

\* _isTokenFresh(get().session?.access_token)
HasFreshToken == session = "fresh"

\* if (_refreshPromise) return _refreshPromise;
SharesRefreshNever(promise) == FALSE

SharesRefresh(promise) == promise # NoPromise

\* _refreshSessionOnce() called by call c.
refreshSessionOnce(c) ==
    IF SharesRefresh(refreshPromise)
    THEN /\ awaits' = [awaits EXCEPT ![c] = refreshPromise]
         /\ UNCHANGED <<refreshPromise, inFlight, refreshes>>
    ELSE /\ refreshPromise' = c
         /\ inFlight' = inFlight \cup {c}
         /\ refreshes' = refreshes + 1
         /\ awaits' = [awaits EXCEPT ![c] = c]

\* if (config.__retryCount < maxRetries)
MayRetryAlways(count) == TRUE

MayRetry(count) == count < maxRetries

\* The request leaves for the network.
Send(c) ==
    /\ callPc' = [callPc EXCEPT ![c] = "sent"]
    /\ sends' = [sends EXCEPT ![c] = @ + 1]

InitApi == InitDb

\* A page calls api.get / api.post / ...
StartCall(c) ==
    /\ callPc[c] = "idle"
    /\ callPc' = [callPc EXCEPT ![c] = "getToken"]
    /\ UNCHANGED <<session, refreshPromise, inFlight, refreshes, authRetried, retryCount,
                   awaits, delivered, lastStatus, sends, resent429, resent401>>

\* The request interceptor: getAccessToken, step 1 and the start of step 2.
GetAccessToken(c) ==
    /\ callPc[c] = "getToken"
    /\ IF HasFreshToken
       THEN /\ Send(c)
            /\ UNCHANGED <<refreshPromise, inFlight, refreshes, awaits>>
       ELSE /\ refreshSessionOnce(c)
            /\ callPc' = [callPc EXCEPT ![c] = "awaitToken"]
            /\ UNCHANGED sends
    /\ UNCHANGED <<session, authRetried, retryCount, delivered, lastStatus, resent429, resent401>>

\* supabase.auth.refreshSession() settles; its .finally() clears the mutex
\* and everybody awaiting the promise is given the result.
SettleRefresh(r, result) ==
    /\ r \in inFlight
    /\ inFlight' = inFlight \ {r}
    /\ refreshPromise' = NoPromise
    /\ delivered' = [c \in Calls |-> IF awaits[c] = r THEN result ELSE delivered[c]]
    /\ awaits' = [c \in Calls |-> IF awaits[c] = r THEN NoPromise ELSE awaits[c]]
    /\ UNCHANGED <<refreshes, callPc, authRetried, retryCount, lastStatus,
                   sends, resent429, resent401>>

\* getAccessToken after the await of step 2.
TokenRefreshed(c) ==
    /\ callPc[c] = "awaitToken"
    /\ delivered[c] # "none"
    /\ delivered' = [delivered EXCEPT ![c] = "none"]
    /\ IF delivered[c] = "session"
       THEN /\ session' = "fresh"
            /\ Send(c)
       ELSE /\ callPc' = [callPc EXCEPT ![c] = "fallback"]
            /\ UNCHANGED <<session, sends>>
    /\ UNCHANGED <<refreshPromise, inFlight, refreshes, authRetried, retryCount, awaits,
                   lastStatus, resent429, resent401>>

\* getAccessToken, step 3: supabase.auth.getSession() gives a usable
\* session or not; the request is sent with the token or without one.
SessionFallback(c, usable) ==
    /\ callPc[c] = "fallback"
    /\ session' = IF usable THEN "fresh" ELSE session
    /\ Send(c)
    /\ UNCHANGED <<refreshPromise, inFlight, refreshes, authRetried, retryCount, awaits,
                   delivered, lastStatus, resent429, resent401>>

\* The response interceptor.
Respond200(c) ==
    /\ callPc' = [callPc EXCEPT ![c] = "resolved"]
    /\ UNCHANGED <<session, refreshPromise, inFlight, refreshes, authRetried, retryCount,
                   awaits>>

Respond401(c) ==
    /\ authRetried' = [authRetried EXCEPT ![c] = TRUE]
    /\ refreshSessionOnce(c)
    /\ callPc' = [callPc EXCEPT ![c] = "await401"]
    /\ UNCHANGED <<session, retryCount>>

Respond429(c) ==
    /\ retryCount' = [retryCount EXCEPT ![c] = @ + 1]
    /\ callPc' = [callPc EXCEPT ![c] = "backoff"]
    /\ UNCHANGED <<session, refreshPromise, inFlight, refreshes, authRetried, awaits>>

Reject(c) ==
    /\ callPc' = [callPc EXCEPT ![c] = "rejected"]
    /\ UNCHANGED <<session, refreshPromise, inFlight, refreshes, authRetried, retryCount,
                   awaits>>

Response(c, status) ==
    /\ callPc[c] = "sent"
    /\ lastStatus' = [lastStatus EXCEPT ![c] = status]
    /\ CASE status = 200                       -> Respond200(c)
         [] status = 401 /\ ~authRetried[c]    -> Respond401(c)
         [] status = 429 /\ MayRetry(retryCount[c]) -> Respond429(c)
         [] OTHER                              -> Reject(c)
    /\ UNCHANGED <<delivered, sends, resent429, resent401>>

\* The 401 branch after the await: retry with the new token, or log out
\* and reject.
AuthRefreshed(c) ==
    /\ callPc[c] = "await401"
    /\ delivered[c] # "none"
    /\ delivered' = [delivered EXCEPT ![c] = "none"]
    /\ IF delivered[c] = "session"
       THEN /\ session' = "fresh"
            /\ callPc' = [callPc EXCEPT ![c] = "getToken"]
            /\ resent401' = [resent401 EXCEPT ![c] = @ + 1]
       ELSE /\ session' = "none"
            /\ callPc' = [callPc EXCEPT ![c] = "rejected"]
            /\ UNCHANGED resent401
    /\ UNCHANGED <<refreshPromise, inFlight, refreshes, authRetried, retryCount, awaits,
                   lastStatus, sends, resent429>>

\* The backoff timer fires: return api(config).
BackoffOver(c) ==
    /\ callPc[c] = "backoff"
    /\ callPc' = [callPc EXCEPT ![c] = "getToken"]
    /\ resent429' = [resent429 EXCEPT ![c] = @ + 1]
    /\ UNCHANGED <<session, refreshPromise, inFlight, refreshes, authRetried, retryCount,
                   awaits, delivered, lastStatus, sends, resent401>>

\* Time passes: the token comes within a minute of its expiry.
TokenAges ==
    /\ session = "fresh"
    /\ session' = "stale"
    /\ UNCHANGED <<refreshPromise, inFlight, refreshes, callPc, authRetried, retryCount,
                   awaits, delivered, lastStatus, sends, resent429, resent401>>

NextApi ==
    /\ UNCHANGED <<authVars, dbVars, calcVars, storeVars, formVars, logoutVars>>
    /\ \/ \E c \in Calls : StartCall(c)
       \/ \E c \in Calls : GetAccessToken(c)
       \/ \E r \in Calls, result \in RefreshResults :
             SettleRefresh(r, result) /\ UNCHANGED session
       \/ \E c \in Calls : TokenRefreshed(c)
       \/ \E c \in Calls, usable \in BOOLEAN : SessionFallback(c, usable)
       \/ \E c \in Calls, status \in Statuses : Response(c, status)
       \/ \E c \in Calls : AuthRefreshed(c)
       \/ \E c \in Calls : BackoffOver(c)
       \/ TokenAges

SpecApi == InitApi /\ [][NextApi]_vars

(***************************************************************************)
(* utils/invoiceNumber.js on its own: generateInvoiceNumber against tables *)
(* whose latest number is any of NumberPool, with the query answered or    *)
(* failing.                                                                *)
(***************************************************************************)

NumberPool == { <<0, 0, 1>>, <<0, 0, 7>>, <<0, 9, 9>>, <<9, 9, 9>>, <<1, 0, 0, 0>> }

\* A row as the query of generateInvoiceNumber reads it.
NumberedInvoice(userId, digits) ==
    /\ clock < MaxClock
    /\ invoices' = invoices \cup
          { [id |-> nextId, user_id |-> userId, created_at |-> clock + 1,
             invoice_number |-> [prefix |-> INVOICE_PREFIX, digits |-> digits]] }
    /\ nextId' = nextId + 1
    /\ clock' = clock + 1
    /\ UNCHANGED resp

\* await generateInvoiceNumber(userId): `if (error) throw error`, else the
\* number.
GenerateNumber(userId, error) ==
    /\ resp' = IF error # ""
               THEN Failure("generateInvoiceNumber", userId, 0, error, NoBody, {})
               ELSE Answer("generateInvoiceNumber", userId, 0, 200,
                           {generateInvoiceNumber(invoices, userId)}, NoBody, {}, {}, NoUrl)
    /\ UNCHANGED <<invoices, nextId, clock>>

NextNumber ==
    /\ UNCHANGED <<authVars, clientVars, today, storage, reqs, concurrency, issued, sent>>
    /\ \/ \E userId \in Users, digits \in NumberPool : NumberedInvoice(userId, digits)
       \/ \E userId \in Users, error \in {"", "PGRST116", "fetch failed"} :
             GenerateNumber(userId, error)

SpecNumber == InitDb /\ [][NextNumber]_vars

(***************************************************************************)
(* utils/amountToWords.js.  A text is the sequence of its words and of the *)
(* single spaces between them; an amount is its rupees and its paise.      *)
(***************************************************************************)

\* ones[n] for 1..19, and tens[n] for 2..9.
ones == <<"One", "Two", "Three", "Four", "Five", "Six", "Seven", "Eight", "Nine", "Ten",
          "Eleven", "Twelve", "Thirteen", "Fourteen", "Fifteen", "Sixteen", "Seventeen",
          "Eighteen", "Nineteen">>

tens == <<"", "Twenty", "Thirty", "Forty", "Fifty", "Sixty", "Seventy", "Eighty", "Ninety">>

\* String.prototype.trim
RECURSIVE Trim(_)
Trim(text) ==
    IF text = <<>> THEN <<>>
    ELSE IF Head(text) = " " THEN Trim(Tail(text))
    ELSE IF text[Len(text)] = " " THEN Trim(SubSeq(text, 1, Len(text) - 1))
    ELSE text

convertToWordsFlat(num) == <<"Zero">>

RECURSIVE convertToWords(_)
convertToWords(num) ==
    IF num = 0 THEN <<"Zero">>
    ELSE LET Part(n, unit, name) ==
                 IF n \div unit > 0
                 THEN convertToWords(n \div unit) \o <<" ", name, " ">>
                 ELSE <<>>
             Rest(n, unit) == IF n \div unit > 0 THEN n % unit ELSE n
             n1 == Rest(num, 10000000)
             n2 == Rest(n1, 100000)
             n3 == Rest(n2, 1000)
             n4 == Rest(n3, 100)
             last == IF n4 = 0 THEN <<>>
                     ELSE IF n4 < 20 THEN <<ones[n4]>>
                     ELSE IF n4 % 10 > 0 THEN <<tens[n4 \div 10], " ", ones[n4 % 10]>>
                     ELSE <<tens[n4 \div 10]>>
         IN  Trim(Part(num, 10000000, "Crore") \o Part(n1, 100000, "Lakh")
                  \o Part(n2, 1000, "Thousand") \o Part(n3, 100, "Hundred") \o last)

\* amountToWords(amount), amount = rupees + paise / 100: Math.floor(amount)
\* and Math.round((amount - rupees) * 100).
amountToWords(amount) ==
    LET rupees == amount.rupees
        paise  == amount.paise
    IN  convertToWords(rupees) \o <<" ", "Rupees">>
        \o (IF paise > 0 THEN <<" ", "and", " ">> \o convertToWords(paise) \o <<" ", "Paise">>
            ELSE <<>>)

\* The amounts put into words: rupees and paise.
RupeePool == {0, 1, 9, 10, 19, 20, 21, 99, 100, 101, 120, 999, 1000, 1001, 47200, 53100,
              99999, 100000, 100500, 1234567, 9999999, 10000000, 10000001, 123456789,
              1200000000}

PaisePool == {0, 1, 5, 19, 20, 50, 99}

\* The PDF template asks for the words of a total.
WordsOfAmount(rupees, paise) ==
    /\ resp' = Answer("amountToWords", Null, 0, 200,
                      {[rupees |-> rupees, paise |-> paise,
                        words |-> amountToWords([rupees |-> rupees, paise |-> paise])]},
                      NoBody, {}, {}, NoUrl)
    /\ UNCHANGED <<invoices, nextId, clock>>

NextWords ==
    /\ UNCHANGED <<authVars, clientVars, today, storage, reqs, concurrency, issued, sent>>
    /\ \E rupees \in RupeePool, paise \in PaisePool : WordsOfAmount(rupees, paise)

SpecWords == InitDb /\ [][NextWords]_vars

(***************************************************************************)
(* client/src/store/invoiceStore.js: the auto-saved draft.  A draft is a   *)
(* record of text fields; the text in localStorage is [json |-> value] for *)
(* the JSON text of a value and [corrupt |-> TRUE] for a text that         *)
(* JSON.parse rejects.                                                     *)
(***************************************************************************)

Undefined == "<undefined>"

\* The properties that hold a text; the others hold numbers, booleans or
\* lists and are never undefined.
TextFields == {"document_type", "customer_name", "notes"}

\* JSON.stringify(value): a property whose value is undefined is left out.
JsonStringify(value) ==
    [json |-> [k \in {k \in DOMAIN value : ~(k \in TextFields /\ value[k] = Undefined)}
                 |-> value[k]]]

DraftPool ==
    { [document_type |-> "invoice", customer_name |-> "Test"],
      [document_type |-> "estimate", customer_name |-> "Test"],
      [document_type |-> "invoice", customer_name |-> "Rajan", notes |-> Undefined],
      [document_type |-> "invoice", customer_name |-> ""],
      [document_type |-> "estimate", customer_name |-> "Rajan", notes |-> "Call first"],
      [document_type |-> "estimate", customer_name |-> ""],
      [document_type |-> "invoice", customer_name |-> "Test", notes |-> "Call first"],
      [document_type |-> "estimate", customer_name |-> "Test", notes |-> Undefined] }

\* saveDraft(draftData); localStorage.setItem stores the text or throws
\* (storage full or refused), which is caught and logged.
saveDraft(draftData, written) ==
    /\ draft' = draftData
    /\ localDraft' = IF written THEN JsonStringify(draftData) ELSE localDraft
    /\ lastDraftOp' = "saveDraft"
    /\ loaded' = NoBody

\* loadDraft()
loadDraft ==
    /\ lastDraftOp' = "loadDraft"
    /\ IF "json" \in DOMAIN localDraft
       THEN /\ draft' = localDraft.json
            /\ loaded' = localDraft.json
            /\ UNCHANGED localDraft
       ELSE /\ loaded' = NoBody
            /\ UNCHANGED <<draft, localDraft>>

\* clearDraft()
clearDraft ==
    /\ draft' = NoBody
    /\ localDraft' = NoBody
    /\ lastDraftOp' = "clearDraft"
    /\ loaded' = NoBody

\* Something else leaves a text under the key that is not JSON.
CorruptDraft ==
    /\ localDraft' = [corrupt |-> TRUE]
    /\ lastDraftOp' = "other"
    /\ loaded' = NoBody
    /\ UNCHANGED draft

NextDraft ==
    /\ UNCHANGED <<authVars, dbVars, calcVars, storeVars, apiVars, logoutVars, page, docType, opened, payload>>
    /\ \/ \E draftData \in DraftPool, written \in BOOLEAN : saveDraft(draftData, written)
       \/ loadDraft
       \/ clearDraft
       \/ CorruptDraft

SpecDraft == InitDb /\ [][NextDraft]_vars

(***************************************************************************)
(* SpecForm: client/src/pages/InvoiceCreate.jsx and the InvoiceEdit page.  *)
(* One page is open at a time.  The form holds the fields the totals and   *)
(* the payload are built from; the other text fields (phone, address,      *)
(* dates, notes) are carried to the payload as typed and are left out, and *)
(* so are the form fields subtotal, tax_amount and total_amount, which     *)
(* syncToForm writes, the payload overwrites and nothing reads.            *)
(* Both pages call useInvoiceCalculations(watch, setValue) while the hook  *)
(* declares (control, watch, setValue); the hook is modelled with the      *)
(* arguments bound as its body uses them.  Amounts are in thousandths, a   *)
(* quantity is a count.  localStorage takes every write here; SpecDraft    *)
(* covers the write that is refused.                                       *)
(***************************************************************************)
\* The auto-save timer is followed while the form has this many lines.
MaxDraftLines == 1

QuantityPool == {1, 2}
RatePool     == {10005}
NamePool     == {"Asha"}

\* append({ description: '', quantity: 1, rate: 0, amount: 0 })
NewLine == [description |-> "", quantity |-> 1, rate |-> 0, amount |-> 0]

\* No page is mounted: the form of useForm does not exist.
NoForm == [services |-> <<>>, tax_enabled |-> FALSE, tax_percentage |-> 0,
           discount_amount |-> 0]

getDefaults(type) ==
    [document_type |-> type, customer_name |-> "", services |-> <<NewLine>>,
     tax_enabled |-> TRUE, tax_percentage |-> 18, discount_amount |-> 0]

\* Object.entries(draft).forEach(([key, value]) => setValue(key, value))
RestoreDraft(f, d) ==
    [k \in DOMAIN f \cup DOMAIN d |-> IF k \in DOMAIN d THEN d[k] ELSE f[k]]

\* x || fallback for a number
OrElse(x, fallback) == IF x = 0 THEN fallback ELSE x

\* The values reset() is given for the invoice the edit page fetched.
Prefill(inv) ==
    [document_type   |-> inv.document_type,
     customer_name   |-> inv.customer_name,
     services        |-> IF Len(inv.services) > 0
                         THEN [i \in DOMAIN inv.services |->
                                 [description |-> inv.services[i].description,
                                  quantity    |-> OrElse(inv.services[i].quantity, 1),
                                  rate        |-> inv.services[i].rate,
                                  amount      |-> inv.services[i].amount]]
                         ELSE <<NewLine>>,
     tax_enabled     |-> inv.tax_percentage > 0,
     tax_percentage  |-> OrElse(inv.tax_percentage, 18),
     discount_amount |-> inv.discount_amount]

\* The payload onSubmit builds from the submitted values and the totals of
\* the hook.
BuildPayload(data, c) ==
    [k \in DOMAIN data \cup {"subtotal", "tax_amount", "total_amount"} |->
        CASE k = "subtotal"     -> c.subtotal
          [] k = "tax_amount"   -> c.taxAmount
          [] k = "total_amount" -> c.total
          [] k = "services"     -> [i \in DOMAIN data.services |->
                                      [data.services[i] EXCEPT
                                          !.amount = data.services[i].quantity
                                                     * data.services[i].rate]]
          [] OTHER              -> data[k]]

\* Rows the edit page can fetch.  The first is the payload the create form
\* sends for one line of 2 x 10.005 with the tax switched off; the second
\* the same with the tax on; the third the payload of an estimate of two
\* lines, 1 x 10.005 shown as 10.01 and 2 x 10.005.
EditPool ==
    { [document_type |-> "invoice", customer_name |-> "Asha",
       services |-> <<[description |-> "Sofa", quantity |-> 2, rate |-> 10005,
                       amount |-> 20010]>>,
       subtotal |-> 20010, tax_enabled |-> FALSE, tax_percentage |-> 18,
       tax_amount |-> 0, discount_amount |-> 0, total_amount |-> 20010],
      [document_type |-> "invoice", customer_name |-> "Asha",
       services |-> <<[description |-> "Sofa", quantity |-> 2, rate |-> 10005,
                       amount |-> 20010]>>,
       subtotal |-> 20010, tax_enabled |-> TRUE, tax_percentage |-> 18,
       tax_amount |-> 3600, discount_amount |-> 0, total_amount |-> 23610],
      [document_type |-> "estimate", customer_name |-> "Asha",
       services |-> <<[description |-> "Sofa", quantity |-> 1, rate |-> 10005,
                       amount |-> 10005],
                      [description |-> "Sofa", quantity |-> 2, rate |-> 10005,
                       amount |-> 20010]>>,
       subtotal |-> 30020, tax_enabled |-> TRUE, tax_percentage |-> 18,
       tax_amount |-> 5400, discount_amount |-> 0, total_amount |-> 35420] }

DraftSame == UNCHANGED <<draft, localDraft, loaded, lastDraftOp>>

\* The page stays open; a payload it sent before is history.
PageSame ==
    /\ payload' = NoBody
    /\ UNCHANGED <<page, docType, opened>>

\* InvoiceCreate mounts: useForm with the defaults of the type in the URL,
\* then the effect that restores the draft.
OpenCreate(type) ==
    /\ page = "closed"
    /\ page' = "create"
    /\ docType' = type
    /\ opened' = NoBody
    /\ payload' = NoBody
    /\ loadDraft
    /\ form' = IF loaded' # NoBody THEN RestoreDraft(getDefaults(type), loaded')
               ELSE getDefaults(type)
    /\ calculations' \in Calculations(form')

\* InvoiceEdit mounts and fetchInvoice answers.
OpenEdit(inv) ==
    /\ page = "closed"
    /\ page' = "edit"
    /\ docType' = inv.document_type
    /\ opened' = inv
    /\ payload' = NoBody
    /\ form' = Prefill(inv)
    /\ calculations' \in Calculations(form')
    /\ DraftSame

\* The onChange of a quantity or rate input: the field, then
\* updateLineAmount(index).
SetLineField(index, name, value) ==
    /\ page # "closed"
    /\ index \in DOMAIN form.services
    /\ LET line == [form.services[index] EXCEPT ![name] = value]
       IN  \E amount \in ToFixed2(line.quantity * line.rate, 1) :
              SetValue("services",
                       [form.services EXCEPT ![index] = [line EXCEPT !.amount = amount]])
    /\ PageSame
    /\ DraftSame

SetQuantity(index) == \E q \in QuantityPool : SetLineField(index, "quantity", q)

SetRate(index) == \E r \in RatePool : SetLineField(index, "rate", r)

SetDescription(index) ==
    /\ page # "closed"
    /\ index \in DOMAIN form.services
    /\ SetValue("services", [form.services EXCEPT ![index].description = "Sofa"])
    /\ PageSame
    /\ DraftSame

SetCustomerName ==
    /\ page # "closed"
    /\ \E name \in NamePool : SetValue("customer_name", name)
    /\ PageSame
    /\ DraftSame

\* The tax switch.
SetTaxEnabled ==
    /\ page # "closed"
    /\ ToggleTax
    /\ PageSame
    /\ DraftSame

AppendLine ==
    /\ page # "closed"
    /\ Len(form.services) < MaxLines
    /\ SetValue("services", Append(form.services, NewLine))
    /\ PageSame
    /\ DraftSame

\* remove(index); the button is shown when fields.length > 1.
RemoveLine(index) ==
    /\ page # "closed"
    /\ Len(form.services) > 1
    /\ index \in DOMAIN form.services
    /\ SetValue("services", SubSeq(form.services, 1, index - 1)
                            \o SubSeq(form.services, index + 1, Len(form.services)))
    /\ PageSame
    /\ DraftSame

\* The debounced auto-save of the create page.
AutoSave(written) ==
    /\ page = "create"
    /\ Len(form.services) <= MaxDraftLines
    /\ form.customer_name # "" \/ form.services[1].description # ""
    /\ saveDraft(form, written)
    /\ UNCHANGED <<form, calculations>>
    /\ PageSame

\* The rules handleSubmit checks before it calls onSubmit.
Valid(f) ==
    /\ f.customer_name # ""
    /\ \A i \in DOMAIN f.services :
          /\ f.services[i].description # ""
          /\ f.services[i].quantity >= 1
          /\ f.services[i].rate >= 0

\* onSubmit(data) of either page; ok: the request succeeded and the page
\* navigates away.
Submit(ok) ==
    /\ page # "closed"
    /\ Valid(form)
    /\ payload' = BuildPayload(form, calculations)
    /\ UNCHANGED <<docType, opened>>
    /\ IF ok
       THEN /\ page' = "closed"
            /\ form' = NoForm
            /\ calculations' \in Calculations(NoForm)
            /\ IF page = "create" THEN clearDraft ELSE DraftSame
       ELSE /\ UNCHANGED <<page, form, calculations>>
            /\ DraftSame

\* The user leaves the page without submitting.
LeavePage ==
    /\ page # "closed"
    /\ page' = "closed"
    /\ form' = NoForm
    /\ calculations' \in Calculations(NoForm)
    /\ UNCHANGED <<docType, opened, payload>>
    /\ DraftSame

NextForm ==
    /\ UNCHANGED <<authVars, dbVars, storeVars, apiVars, logoutVars>>
    /\ \/ \E type \in {"invoice", "estimate"} : OpenCreate(type)
       \/ \E inv \in EditPool : OpenEdit(inv)
       \/ \E index \in 1..MaxLines : SetQuantity(index)
       \/ \E index \in 1..MaxLines : SetRate(index)
       \/ \E index \in 1..MaxLines : SetDescription(index)
       \/ SetCustomerName
       \/ SetTaxEnabled
       \/ AppendLine
       \/ \E index \in 1..MaxLines : RemoveLine(index)
       \/ AutoSave(TRUE)
       \/ \E ok \in BOOLEAN : Submit(ok)
       \/ LeavePage

SpecForm == InitDb /\ [][NextForm]_vars

(***************************************************************************)
(* SpecLogout: the auth store (authStore, lines 50-281 of the file kept as *)
(* components/layout/AuthLayout.jsx) with the API calls of SpecApi around  *)
(* it.  logout() awaits supabase.auth.signOut() and then clears the store; *)
(* the handler that initialize() registers with onAuthStateChange is       *)
(* subscribed.  supabase.auth is outside the repository: each of its       *)
(* promises settles on its own, in any order.  A refresh gives a session   *)
(* only if it was started with one and before logout() was called.         *)
(***************************************************************************)
InitLogout == InitDb

\* The refreshes in flight that can still give a session, after a step
\* that may have started one.
LiveAfterStart ==
    liveRefreshes \cup (IF authSession /\ ~signingOut THEN inFlight' \ inFlight ELSE {})

\* The request interceptor, with the book-keeping of this specification.
InterceptRequest(c) ==
    /\ GetAccessToken(c)
    /\ liveRefreshes' = LiveAfterStart
    /\ UNCHANGED <<isAuthenticated, signingOut, loggedOut, authSession>>

\* The response interceptor for 200 and 401.
InterceptResponse(c, status) ==
    /\ Response(c, status)
    /\ liveRefreshes' = LiveAfterStart
    /\ UNCHANGED <<isAuthenticated, signingOut, loggedOut, authSession>>

\* refreshSession() settles.  With a session the library keeps it and tells
\* the subscriber TOKEN_REFRESHED: set({ session, user: session.user }).
RefreshSettles(r, result) ==
    /\ SettleRefresh(r, result)
    /\ result = "session" => r \in liveRefreshes
    /\ liveRefreshes' = liveRefreshes \ {r}
    /\ session' = IF result = "session" THEN "fresh" ELSE session
    /\ authSession' = IF result = "session" THEN TRUE ELSE authSession
    /\ UNCHANGED <<isAuthenticated, signingOut, loggedOut>>

\* getAccessToken after step 2: set({ session, user, isAuthenticated: true })
TokenSet(c) ==
    /\ TokenRefreshed(c)
    /\ isAuthenticated' = IF delivered[c] = "session" THEN TRUE ELSE isAuthenticated
    /\ UNCHANGED <<signingOut, loggedOut, authSession, liveRefreshes>>

\* getAccessToken, step 3: getSession() gives what supabase.auth holds.
FallbackSet(c, usable) ==
    /\ usable => authSession
    /\ SessionFallback(c, usable)
    /\ isAuthenticated' = IF usable THEN TRUE ELSE isAuthenticated
    /\ UNCHANGED <<signingOut, loggedOut, authSession, liveRefreshes>>

\* The 401 branch after its await: setState({ ..., isAuthenticated: true })
\* and the retry, or logout(), which is not awaited, and the rejection.
AuthRetry(c) ==
    /\ callPc[c] = "await401"
    /\ delivered[c] # "none"
    /\ delivered' = [delivered EXCEPT ![c] = "none"]
    /\ IF delivered[c] = "session"
       THEN /\ session' = "fresh"
            /\ isAuthenticated' = TRUE
            /\ callPc' = [callPc EXCEPT ![c] = "getToken"]
            /\ resent401' = [resent401 EXCEPT ![c] = @ + 1]
            /\ UNCHANGED signingOut
       ELSE /\ signingOut' = TRUE
            /\ callPc' = [callPc EXCEPT ![c] = "rejected"]
            /\ UNCHANGED <<session, isAuthenticated, resent401>>
    /\ UNCHANGED <<refreshPromise, inFlight, refreshes, authRetried, retryCount, awaits,
                   lastStatus, sends, resent429, loggedOut, authSession, liveRefreshes>>

\* The user logs out: logout() up to its await.
logout ==
    /\ isAuthenticated
    /\ ~signingOut
    /\ signingOut' = TRUE
    /\ UNCHANGED <<apiVars, isAuthenticated, loggedOut, authSession, liveRefreshes>>

\* signOut() settles: the SIGNED_OUT handler and the rest of logout() both
\* set({ user: null, session: null, isAuthenticated: false }).
SignedOut ==
    /\ signingOut
    /\ signingOut' = FALSE
    /\ session' = "none"
    /\ isAuthenticated' = FALSE
    /\ authSession' = FALSE
    /\ loggedOut' = TRUE
    /\ UNCHANGED <<refreshPromise, inFlight, refreshes, callPc, authRetried, retryCount,
                   awaits, delivered, lastStatus, sends, resent429, resent401, liveRefreshes>>

\* login(email, password) succeeds.
login ==
    /\ loggedOut
    /\ session' = "fresh"
    /\ isAuthenticated' = TRUE
    /\ authSession' = TRUE
    /\ loggedOut' = FALSE
    /\ UNCHANGED <<refreshPromise, inFlight, refreshes, callPc, authRetried, retryCount,
                   awaits, delivered, lastStatus, sends, resent429, resent401,
                   signingOut, liveRefreshes>>

NextLogout ==
    /\ UNCHANGED <<authVars, dbVars, calcVars, storeVars, formVars>>
    /\ \/ \E c \in Calls : StartCall(c) /\ UNCHANGED logoutVars
       \/ \E c \in Calls : InterceptRequest(c)
       \/ \E r \in Calls, result \in RefreshResults : RefreshSettles(r, result)
       \/ \E c \in Calls : TokenSet(c)
       \/ \E c \in Calls, usable \in BOOLEAN : FallbackSet(c, usable)
       \/ \E c \in Calls, status \in {200, 401} : InterceptResponse(c, status)
       \/ \E c \in Calls : AuthRetry(c)
       \/ TokenAges /\ UNCHANGED logoutVars
       \/ logout
       \/ SignedOut
       \/ login

SpecLogout == InitLogout /\ [][NextLogout]_vars

(***************************************************************************)
(* The properties checked.                                                 *)
(***************************************************************************)

\* C1 (SpecRace): in every reachable state, no two stored invoices of the
\* same user carry the same invoice number, whatever the interleaving of
\* create and duplicate requests.
C1_UniqueNumberPerUser ==
    \A r1 \in invoices, r2 \in invoices :
        (r1.user_id = r2.user_id /\ r1.invoice_number = r2.invoice_number)
            => r1.id = r2.id

\* C2 (SpecRace): the numeric part of the number of every newly inserted
\* invoice is strictly greater than every number assigned to that user
\* before (issued holds the largest of them), also after deletions.
C2_NumbersIncrease ==
    [][\A r \in invoices' :
          (\A o \in invoices : o.id # r.id)
              => ParseInt(r.invoice_number.digits) > issued[r.user_id]]_vars

\* C3 (SpecIso): the step that answers a request of a user leaves every
\* row of every other user in the table, unchanged, and every row a
\* response was computed from or carries belongs to the user it answers.
C3_Isolation ==
    /\ [][\A r \in invoices : r.user_id # resp'.user => r \in invoices']_vars
    /\ [](\A r \in resp.data \cup resp.before \cup resp.source :
              r.user_id = resp.user)

\* userA got the answer of a DELETE for the id of a row of userB, sent
\* after userB's upload for that row.
C3_Witness ==
    /\ resp.user = "userA" /\ resp.op = "delete" /\ resp.status = 200
    /\ \E r \in invoices :
          r.user_id = "userB" /\ r.id = resp.id /\ r.pdf_url # NoUrl

\* C4 (SpecAuth): validate and the controllers run, or are about to, only
\* after authenticate of this request got a user from the provider without
\* error and called next(); req.userId is that user's id.
C4_AuthenticatedOnly ==
    LET resolved == {j \in DOMAIN results : /\ ~results[j].thrown
                                            /\ results[j].error.none
                                            /\ results[j].user # NoUser}
    IN  (pc \in {"validate", "controller"} \/ ran # <<>>)
            => /\ nextCalled = 1
               /\ \E j \in resolved : reqUserId = results[j].user
               /\ reqUserId = TokenUser(token)

C4_Witness ==
    /\ pc = "done"
    /\ ran = <<"validate", "updateInvoice">>
    /\ reqUserId = "userB"

\* C5 (SpecAuth): the answer of authenticate is 401 without a Bearer
\* header, 401 when the provider rejected the token, and 503 whenever the
\* verification failed because the provider is unreachable, however the
\* getUser call reported it.
C5_AuthAnswers ==
    LET last == results[Len(results)]
    IN  (pc = "done" /\ nextCalled = 0)
            => /\ authorization # "Bearer" => resStatus = 401
               /\ (/\ results # <<>>
                   /\ ~last.thrown
                   /\ ~last.error.none
                   /\ ~last.error.outage) => resStatus = 401
               /\ (/\ results # <<>>
                   /\ ~last.error.none
                   /\ last.error.outage) => resStatus = 503

\* C6 (SpecAuth): when a getUser attempt failed with a transient error and
\* a later attempt gave a valid user, authenticate sets req.userId to that
\* user and calls next(); it answers neither 503 nor 401.
C6_RetrySucceeds ==
    \A i \in DOMAIN results, j \in DOMAIN results :
        (/\ pc \notin {"authenticate", "getUser", "delay", "outcome"}
         /\ i < j
         /\ ~results[i].thrown /\ isTransientAuthError(results[i].error)
         /\ ~results[j].thrown /\ results[j].error.none /\ results[j].user # NoUser)
            => /\ nextCalled = 1
               /\ reqUserId = results[j].user
               /\ resStatus \notin {401, 503}

\* C7 (SpecDb): every row inserted by create or duplicate has status
\* 'draft' when it is stored.
C7_InsertedAsDraft ==
    [][\A r \in invoices' :
          (\A o \in invoices : o.id # r.id) => r.status = "draft"]_vars

\* A paid invoice that was created from a body carrying status 'paid' has
\* been duplicated.
C7_Witness ==
    /\ resp.op = "duplicate" /\ resp.status = 201
    /\ \E src \in resp.source : src.status = "paid" /\ src.customer_name = SparseBody.customer_name
    /\ \A r \in resp.data : r \in invoices

\* C8 (SpecDb): duplicate stores one row; it has a new id and number,
\* status 'draft', due_date null, today's invoice_date, and every other
\* field equal to the field of the source row that duplicate read.
C8_DuplicateCopies ==
    (resp.op = "duplicate" /\ resp.status = 201)
        => \A src \in resp.source, new \in resp.data :
              /\ new.id # src.id
              /\ new.invoice_number # src.invoice_number
              /\ new.status = "draft"
              /\ new.due_date = Null
              /\ new.invoice_date = today
              /\ new.user_id = src.user_id
              /\ \A k \in SchemaKeys \ {"invoice_date", "due_date"} : new[k] = src[k]
              /\ new \in invoices /\ Cardinality(resp.data) = 1

\* C9 (SpecDb): GET /:id of a row that was created by POST / and not
\* written since returns, for every schema field of the body that was
\* sent, the value that was sent.
C9_CreateGetRoundTrip ==
    (resp.op = "getById" /\ resp.status = 200 /\ resp.id \in DOMAIN sent)
        => \A row \in resp.data :
              \A k \in DOMAIN sent[resp.id] \cap SchemaKeys :
                  row[k] = sent[resp.id][k]

\* C10 (SpecDb): after PUT /:id with an accepted body of schema fields,
\* the fields of the body hold the values sent, updated_at is new, and
\* every other column of the row is as before.
C10_PartialUpdate ==
    (resp.op = "update" /\ resp.status = 200 /\ DOMAIN resp.request \subseteq SchemaKeys)
        => \A old \in resp.before, new \in resp.data :
              \A k \in Columns :
                  IF k \in DOMAIN resp.request THEN new[k] = resp.request[k]
                  ELSE IF k = "updated_at" THEN new[k] > old[k]
                  ELSE new[k] = old[k]

\* C11 (SpecDb): every stored invoice satisfies
\* total_amount = max(subtotal + tax_amount - discount_amount, 0).
C11_TotalsConsistent ==
    \A r \in invoices :
        r.total_amount = Max(r.subtotal + r.tax_amount - r.discount_amount, 0)

\* C12 (SpecCalc): subtotal is the sum of the line amounts; taxAmount is
\* subtotal * pct / 100 rounded to two decimals when tax is enabled and 0
\* when it is disabled; total is max(subtotal + taxAmount - discount, 0)
\* rounded to two decimals, and never negative.
C12_CalculationsRounded ==
    LET c        == calculations
        subtotal == SumAmounts(form.services)
        exact    == Max(subtotal + c.taxAmount - form.discount_amount, 0)
    IN  /\ c.subtotal = subtotal
        /\ IF form.tax_enabled
           THEN /\ c.taxAmount % 10 = 0
                /\ 100 * c.taxAmount - subtotal * form.tax_percentage <= 500
                /\ subtotal * form.tax_percentage - 100 * c.taxAmount <= 500
           ELSE c.taxAmount = 0
        /\ c.total % 10 = 0
        /\ c.total - exact <= 5 /\ exact - c.total <= 5
        /\ c.total >= 0

\* Tax is enabled, the discount exceeds subtotal + tax, and the total is 0.
C12_Witness ==
    /\ form.tax_enabled /\ form.tax_percentage = 18
    /\ SumAmounts(form.services) = 200500
    /\ form.discount_amount = 500000
    /\ calculations.taxAmount = 36090
    /\ calculations.total = 0

\* C12 as stated: taxAmount is exactly subtotal * pct / 100 when tax is
\* enabled and 0 otherwise, and total is exactly
\* max(subtotal + taxAmount - discount, 0).
C12_CalculationsExact ==
    LET c        == calculations
        subtotal == SumAmounts(form.services)
    IN  /\ IF form.tax_enabled
           THEN 100 * c.taxAmount = subtotal * form.tax_percentage
           ELSE c.taxAmount = 0
        /\ c.total = Max(subtotal + c.taxAmount - form.discount_amount, 0)
        /\ c.total >= 0

\* C13 (SpecDb): every stored invoice has at least one service line with a
\* non-empty description and a rate greater than 0.
C13_ChargedServiceLine ==
    \A r \in invoices :
        \E i \in DOMAIN r.services :
            Len(r.services[i].description) > 0 /\ r.services[i].rate > 0

\* C14 (SpecDb): in every stored invoice subtotal, tax_amount,
\* discount_amount and total_amount are >= 0, and so are the rate and the
\* amount of every service line.
C14_MoneyNonNegative ==
    \A r \in invoices :
        /\ r.subtotal >= 0 /\ r.tax_amount >= 0
        /\ r.discount_amount >= 0 /\ r.total_amount >= 0
        /\ \A i \in DOMAIN r.services :
              r.services[i].rate >= 0 /\ r.services[i].amount >= 0

\* A PUT whose services list has a line with a negative rate was answered
\* 400 for a stored invoice.
C14_Witness ==
    /\ resp.op = "update" /\ resp.status = 400
    /\ "services" \in DOMAIN resp.request
    /\ \E i \in DOMAIN resp.request.services : resp.request.services[i].rate < 0
    /\ \E r \in invoices : r.id = resp.id

\* C15 (SpecDb): a request for an invoice id, with a body its schema
\* accepts, that finds no invoice of the user with that id is answered 404.
C15_MissingIs404 ==
    LET accepted ==
            /\ resp.op = "update" =>
                  SchemaValidate("updateInvoiceSchema", resp.request).details = {}
            /\ resp.op = "status" =>
                  SchemaValidate("updateStatusSchema", resp.request).details = {}
        missed ==
            /\ resp.op \in {"getById", "update", "status", "delete", "duplicate",
                            "pdf", "upload"}
            /\ resp.before = {} /\ resp.source = {}
            /\ ~\E r \in invoices : r.id = resp.id /\ r.user_id = resp.user
    IN  (accepted /\ missed) => resp.status = 404

\* C16 (SpecDb): a body of POST /, PUT /:id or PUT /:id/status that its
\* schema rejects is answered 400 'Validation error' with one field/message
\* entry per violation and no data; the step that answers it starts no
\* service call and leaves the table as it is.
C16_RejectedBody ==
    /\ [](LET SchemaOf(op) == CASE op = "create" -> "createInvoiceSchema"
                                [] op = "update" -> "updateInvoiceSchema"
                                [] op = "status" -> "updateStatusSchema"
              violations == IF resp.op \in {"create", "update", "status"}
                            THEN SchemaValidate(SchemaOf(resp.op), resp.request).details
                            ELSE {}
          IN  violations # {} =>
                 /\ resp.status = 400 /\ resp.error = "Validation error"
                 /\ resp.data = {}
                 /\ Cardinality(resp.details) = Cardinality(violations)
                 /\ \A d \in violations :
                       \E e \in resp.details : e.field = Join(d.path))
    /\ [][(resp'.error = "Validation error" /\ resp' # resp) =>
              (invoices' = invoices /\ reqs' = reqs /\ nextId' = nextId
                                   /\ clock' = clock)]_vars

\* A PUT with two negative figures was answered with two entries, for a
\* stored invoice.
C16_Witness ==
    /\ resp.op = "update" /\ resp.status = 400
    /\ resp.details = { [field |-> "discount_amount", message |-> "invalid"],
                        [field |-> "subtotal", message |-> "invalid"] }
    /\ \E r \in invoices : r.id = resp.id


\* C17: for every list and every filter setting, getFilteredInvoices gives
\* exactly the invoices that pass the search, the type and the status
\* filter, each once, in the order of sortBy: created_at descending or
\* ascending, total_amount descending or ascending.
C17_FilteredAndSorted ==
    LET Passes(inv) ==
            /\ \/ storeFilters.search = <<>>
               \/ IncludesText(LowerText(inv.customer_name), LowerText(storeFilters.search))
               \/ IncludesText(LowerText(inv.invoice_number), LowerText(storeFilters.search))
            /\ storeFilters.type = "all" \/ inv.document_type = storeFilters.type
            /\ storeFilters.status = "all" \/ inv.status = storeFilters.status
        Rows(l) == { l[i] : i \in DOMAIN l }
        InOrder(a, b) ==
            CASE storeFilters.sortBy = "newest"      -> a.created_at >= b.created_at
              [] storeFilters.sortBy = "oldest"      -> a.created_at <= b.created_at
              [] storeFilters.sortBy = "amount_high" -> a.total_amount >= b.total_amount
              [] storeFilters.sortBy = "amount_low"  -> a.total_amount <= b.total_amount
    IN  /\ Rows(filtered) = { inv \in Rows(storeInvoices) : Passes(inv) }
        /\ \A i, j \in DOMAIN filtered : filtered[i] = filtered[j] => i = j
        /\ \A i, j \in DOMAIN filtered : i < j => InOrder(filtered[i], filtered[j])

\* C18: the history view fetches all of the user's invoices and filters
\* locally: while the store holds what the server answers the view's
\* request, every stored invoice of the user that passes the active
\* filters is in the list the view shows, however many are stored.
C18_AllFetched ==
    storeInvoices = FetchAll(invoices, Viewer) =>
        \A r \in invoices :
            (r.user_id = Viewer /\ Keeps(storeFilters, r)) =>
                \E i \in DOMAIN filtered : filtered[i] = r

\* C19: whatever the server answers, one API call is re-sent at most 3
\* times because of a 429 and at most once because of a 401, so at most 5
\* requests are sent for it and the answer to the fifth settles it; a 401
\* to a call already retried after a refresh rejects it and starts no
\* refresh.
C19_BoundedRetries ==
    /\ [](\A c \in Calls :
            /\ resent429[c] <= 3
            /\ resent401[c] <= 1
            /\ sends[c] <= 5)
    /\ [][\A c \in Calls :
            /\ (callPc[c] = "sent" /\ callPc'[c] # "sent" /\ sends[c] = 5)
                  => callPc'[c] \in {"resolved", "rejected"}
            /\ (callPc[c] = "sent" /\ lastStatus'[c] = 401 /\ callPc'[c] # "sent"
                  /\ authRetried[c])
                  => (callPc'[c] = "rejected" /\ refreshes' = refreshes
                        /\ inFlight' = inFlight /\ awaits' = awaits)]_vars

C19_Witness ==
    \E c \in Calls :
        /\ sends[c] = 5 /\ resent429[c] = 3 /\ resent401[c] = 1
        /\ callPc[c] = "rejected" /\ lastStatus[c] = 401

\* C20: at most one refreshSession() call is in flight; a caller of
\* _refreshSessionOnce that arrives while one is in flight waits for that
\* one and starts none, everybody waiting for a refresh is given its one
\* result, and once it has settled the next caller starts a new one.
C20_OneRefreshInFlight ==
    /\ [](Cardinality(inFlight) <= 1)
    /\ [][/\ \A c \in Calls :
               (awaits[c] = NoPromise /\ awaits'[c] # NoPromise) =>
                  IF inFlight # {}
                  THEN awaits'[c] \in inFlight /\ inFlight' = inFlight /\ refreshes' = refreshes
                  ELSE inFlight' = {awaits'[c]} /\ refreshes' = refreshes + 1
          /\ \A r \in inFlight \ inFlight' :
               /\ refreshPromise' = NoPromise
               /\ \E result \in RefreshResults :
                     \A c \in Calls : awaits[c] = r =>
                        (delivered'[c] = result /\ awaits'[c] = NoPromise)]_vars

C20_Witness ==
    /\ refreshes = 1
    /\ inFlight = {}
    /\ \A c \in Calls : delivered[c] = "noSession"

\* C21: generateInvoiceNumber gives CI-001 to a user without invoices and
\* otherwise CI- and n + 1 padded with zeros to at least 3 digits, n being
\* the number of the user's most recently created invoice; when the query
\* fails the error is passed on and no number is given.
C21_NextNumber ==
    [][(resp'.op = "generateInvoiceNumber" /\ invoices' = invoices) =>
          LET mine   == {r \in invoices : r.user_id = resp'.user}
              latest == CHOOSE r \in mine : \A o \in mine : o.created_at <= r.created_at
              ds     == latest.invoice_number.digits
              n      == IF Len(ds) = 3 THEN 100 * ds[1] + 10 * ds[2] + ds[3]
                        ELSE 1000 * ds[1] + 100 * ds[2] + 10 * ds[3] + ds[4]
              m      == IF mine = {} THEN 1 ELSE n + 1
              text   == IF m < 1000 THEN <<m \div 100, (m \div 10) % 10, m % 10>>
                        ELSE <<m \div 1000, (m \div 100) % 10, (m \div 10) % 10, m % 10>>
          IN  IF resp'.status = 200
              THEN resp'.data = {[prefix |-> "CI", digits |-> text]}
              ELSE resp'.data = {} /\ resp'.error # ""]_vars

C21_Witness ==
    /\ resp.op = "generateInvoiceNumber"
    /\ resp.data = {[prefix |-> "CI", digits |-> <<1, 0, 0, 0>>]}
    /\ \E r \in invoices : r.user_id = resp.user /\ r.invoice_number.digits = <<9, 9, 9>>
    /\ \E r \in invoices : r.user_id # resp.user /\ r.invoice_number.digits = <<0, 0, 7>>

\* C22 as stated: for every amount, amountToWords ends with "Rupees", and
\* for an amount with paise it includes "and <words> Paise".
C22_EndsWithRupees ==
    resp.op = "amountToWords" =>
        \A out \in resp.data :
            /\ out.words[Len(out.words)] = "Rupees"
            /\ out.paise # 0 =>
                  \E i \in DOMAIN out.words : out.words[i] = "and"

\* C22, amended: for every amount, amountToWords is the rupees in words of
\* the Indian scale (crore, lakh, thousand, hundred), then "Rupees", and
\* there it ends when the amount has no paise; otherwise " and ", the paise
\* (1..99) in words and "Paise" follow.  Words are separated by one space.
C22_RupeesThenPaise ==
    resp.op = "amountToWords" =>
        \A out \in resp.data :
            LET w == out.words
                Small(t) == IF \E k \in DOMAIN ones : ones[k] = t
                            THEN CHOOSE k \in DOMAIN ones : ones[k] = t
                            ELSE IF \E k \in DOMAIN tens : tens[k] = t
                            THEN 10 * (CHOOSE k \in DOMAIN tens : tens[k] = t)
                            ELSE 0
                Unit(t) == CASE t = "Crore" -> 10000000 [] t = "Lakh" -> 100000
                             [] t = "Thousand" -> 1000 [] OTHER -> 0
                RECURSIVE Value(_, _, _)
                Value(t, total, current) ==
                    IF t = <<>> THEN total + current
                    ELSE IF Head(t) = "Hundred" THEN Value(Tail(t), total, current * 100)
                    ELSE IF Unit(Head(t)) > 0
                    THEN Value(Tail(t), total + current * Unit(Head(t)), 0)
                    ELSE Value(Tail(t), total, current + Small(Head(t)))
                at == CHOOSE i \in DOMAIN w : w[i] = "Rupees"
                rupeeWords == SubSeq(w, 1, at - 2)
                paiseWords == SubSeq(w, at + 4, Len(w) - 2)
            IN  /\ \A i \in DOMAIN w : (w[i] = " ") <=> (i % 2 = 0)
                /\ Cardinality({i \in DOMAIN w : w[i] = "Rupees"}) = 1
                /\ Value(rupeeWords, 0, 0) = out.rupees
                /\ (out.rupees = 0) <=> (rupeeWords = <<"Zero">>)
                /\ IF out.paise = 0
                   THEN Len(w) = at
                   ELSE /\ SubSeq(w, at + 1, at + 3) = <<" ", "and", " ">>
                        /\ w[Len(w)] = "Paise"
                        /\ Value(paiseWords, 0, 0) = out.paise
                        /\ out.paise \in 1..99

C22_Witness ==
    /\ resp.op = "amountToWords"
    /\ \E out \in resp.data :
          /\ out.rupees = 47200 /\ out.paise = 50
          /\ out.words = <<"Forty", " ", "Seven", " ", "Thousand", " ", "Two", " ", "Hundred",
                           " ", "Rupees", " ", "and", " ", "Fifty", " ", "Paise">>

\* C23: for every request authenticate calls getUser at most 3 times; a
\* further call follows only a result whose error is classified transient,
\* never a non-transient error, a result without user or a user; and
\* authenticate ends with exactly one of: one response (401, 503 or 500),
\* or one call of next().
C23_BoundedRetries ==
    LET Transient(r) ==
            /\ ~r.thrown
            /\ r.error.message \in { <<"fetch", "failed">>,
                                     <<"connect", "ECONNREFUSED", "127.0.0.1:54321">>,
                                     <<"Network", "request", "failed">> }
        inAuthenticate == pc \in {"authenticate", "getUser", "delay", "outcome"}
    IN  /\ Len(results) <= 3
        /\ \A i \in 1..(Len(results) - 1) : Transient(results[i])
        /\ pc = "delay" => Transient(results[Len(results)])
        /\ nextCalled <= 1 /\ resCount <= 1
        /\ inAuthenticate => (nextCalled = 0 /\ resCount = 0)
        /\ ~inAuthenticate =>
              \/ /\ nextCalled = 1
                 /\ resCount = 1 => ran # <<>>
              \/ /\ nextCalled = 0 /\ resCount = 1 /\ ran = <<>>
                 /\ resStatus \in {401, 503, 500}

C23_Witness ==
    /\ Len(results) = 3
    /\ results[3].user = "userA" /\ results[3].error.none
    /\ resStatus = 503 /\ resCount = 1 /\ nextCalled = 0 /\ pc = "done"

\* C25: saveDraft(d) followed by loadDraft() returns a value equal to d
\* (in its defined properties) and sets state.draft to it; after
\* clearDraft() state.draft is null and loadDraft() returns null; when
\* nothing is stored or the stored text cannot be parsed, loadDraft()
\* returns null and leaves state.draft as it was.
C25_DraftRoundTrip ==
    /\ [](lastDraftOp = "clearDraft" => draft = NoBody)
    /\ [][lastDraftOp' = "loadDraft" =>
             /\ lastDraftOp = "saveDraft" =>
                   /\ \A k \in DOMAIN draft \cup DOMAIN loaded' :
                         IF k \in DOMAIN loaded' THEN k \in DOMAIN draft /\ loaded'[k] = draft[k]
                         ELSE draft[k] = Undefined
                   /\ draft' = loaded'
             /\ lastDraftOp = "clearDraft" => (loaded' = NoBody /\ draft' = NoBody)
             /\ "json" \notin DOMAIN localDraft => (loaded' = NoBody /\ draft' = draft)]_vars
\* C24 (as stated): the subtotal of the preview and of the payload is the
\* sum over the service lines of quantity x rate, the amounts sent.
C24_SubtotalIsSumOfLines ==
    /\ page # "closed" =>
          calculations.subtotal = SumAmounts(BuildPayload(form, calculations).services)
    /\ payload # NoBody => payload.subtotal = SumAmounts(payload.services)

\* C27 (as stated): when the edit page is submitted with the form as the
\* prefill left it, the payload has the tax_enabled, tax_percentage,
\* tax_amount, subtotal, discount_amount and total_amount of the stored
\* invoice.
C27_UnchangedEditIsIdentity ==
    [][(page = "edit" /\ form = Prefill(opened) /\ payload' # NoBody) =>
          \A k \in {"tax_enabled", "tax_percentage", "tax_amount", "subtotal",
                    "discount_amount", "total_amount"} : payload'[k] = opened[k]]_vars

\* C30 (as stated): the document_type the create page sends is the type the
\* page was opened with.
C30_SendsTypeOpenedWith ==
    (payload # NoBody /\ opened = NoBody) => payload.document_type = docType

\* C26 (as stated): the object stored under the pdf_url of an invoice is
\* never the PDF of another user's invoice.
C26_PdfNotReplacedByOtherUser ==
    \A row \in invoices :
        row["pdf_url"] \in DOMAIN storage =>
            storage[row["pdf_url"]].user_id = row.user_id

\* C29: every stored invoice has status draft, sent or paid; a step that
\* changes the status of an invoice is an answered PUT /:id/status; and a
\* PUT /:id leaves id, user_id, invoice_number, status and created_at of
\* every invoice as they were, whatever its body holds.
C29_StatusAndIdentityKept ==
    /\ [](\A row \in invoices : row.status \in {"draft", "sent", "paid"})
    /\ [][\A old \in invoices, new \in invoices' :
             old.id = new.id =>
                /\ old.status # new.status => (resp'.op = "status" /\ resp'.status = 200)
                /\ resp'.op = "update" =>
                      /\ old.user_id = new.user_id
                      /\ old.invoice_number = new.invoice_number
                      /\ old.status = new.status
                      /\ old.created_at = new.created_at]_vars

\* PUT /:id with status and user_id in its body was answered 200 for an
\* invoice that PUT /:id/status had marked paid before; the row was written
\* (updated_at moved) and is still userA's.
C29_Witness ==
    /\ resp.op = "update" /\ resp.status = 200
    /\ {"status", "user_id"} \subseteq DOMAIN resp.request
    /\ resp.request["user_id"] = "userB"
    /\ \E row \in invoices :
          /\ row.id = resp.id
          /\ row.status = "paid"
          /\ row.user_id = "userA"
          /\ row.updated_at > row.created_at

\* C28 (as stated): from the completion of logout() until the next login
\* the store has session = null and isAuthenticated = false.
C28_StaysLoggedOut ==
    loggedOut => (session = "none" /\ ~isAuthenticated)

====
